---------------------------- MODULE Spec2Model ----------------------------
(***************************************************************************)
(* google-docs-markdown: the Document <-> Markup converter of              *)
(* google_docs_markdown/downloader.py (GoogleDocMarkdown.download and      *)
(* GoogleDocMarkdown.upload) together with the remote document body the    *)
(* edit operations are applied to.                                         *)
(* Also modelled: GoogleDocsAPIClient._execute_with_retry,                  *)
(* extract_document_id, get_document, batch_update and is_multi_tab         *)
(* (api_client.py), gcloud_run and gcloud_exec (gcloud.py), setup           *)
(* (setup.py), two uploads running against one document, and                *)
(* extract_images and inline_images (image_extractor.py).                   *)
(*                                                                         *)
(* A Python str is a sequence of one-character strings; offsets are the    *)
(* remote API's 1-based character indices.                                 *)
(***************************************************************************)
EXTENDS Integers, Sequences, FiniteSets, TLC

VARIABLES
    body,              \* remote document body: characters at indices 1..Len(body)
    markdown_content,  \* upload's argument
    pc,                \* position of the running operation
    doc,               \* upload: the fetched document (its body content)
    end_index,         \* upload: end index read from the fetched document
    requests,          \* upload: the batchUpdate request list built so far
    lines,             \* upload: markdown_content.split("\n")
    line_no,           \* upload: position of the for loop over lines
    current_index,     \* upload: the running cursor
    content,           \* download: the document's body content (its elements)
    markdown_parts,    \* download: the strings emitted so far
    elem_no,           \* download: position of the for loop over content
    markdown,          \* the markup file download's result is written to
    attempt,           \* _execute_with_retry: the loop variable
    sleeps,            \* _execute_with_retry: the delays slept so far
    outcomes,          \* _execute_with_retry: what each call of api_call did
    retry_result,      \* _execute_with_retry: what it returned or raised
    url_or_id,         \* extract_document_id: the argument
    document_id,       \* extract_document_id: what it returned or raised
    gc_call,           \* gcloud_run / gcloud_exec: the arguments and the
                       \* behaviour of the subprocess
    stderr,            \* gcloud_run / gcloud_exec: the messages echoed
    gc_result,         \* gcloud_run / gcloud_exec: what it returned or raised
    revoke,            \* setup: the --revoke option
    performed,         \* setup: the steps run so far, in order
    current_project,   \* setup: the default project
    projects,          \* setup: the projects list_available_projects gave
    selected_project,  \* setup: the project chosen at the prompt
    exit_code,         \* setup: the statuses sys.exit was called with
    setup_args,        \* setup: extra_scopes and client_id_file as given, and
                       \* whether the default client id file exists
    client_id_file,    \* setup: the local client_id_file
    login_calls,       \* setup: the arguments of the calls of run_auth_login
    client_call,       \* API client: the method called and its arguments
    remote_requests,   \* API client: the requests sent to the service
    client_result,     \* API client: what the method returned or raised
    upload_calls,      \* upload: the calls it made to the service, in order
    uploads,           \* concurrent uploads: each upload's position, markup,
                       \* end index and request list
    batches,           \* concurrent uploads: the batches the service received
    files,             \* the files of the markdown file's directory
    replacements,      \* extract_images: the paths chosen in this run, by digest
    pending,           \* extract_images: the data URIs subn has yet to visit
    exported,          \* extract_images: the substitutions made, all runs
    run_no,            \* extract_images: the number of runs started
    md_text,           \* inline_images: the text of the markdown file
    md_before,         \* inline_images: the text as it was when called
    rewrite_markdown,  \* inline_images: the parameter
    inline_result      \* inline_images: what it returned

\* download's own state
dlVars == <<content, markdown_parts, elem_no, markdown>>

\* the converter's state, pc left out
convVars == <<body, markdown_content, doc, end_index, requests, lines,
              line_no, current_index, dlVars>>

retryVars == <<attempt, sleeps, outcomes, retry_result>>

idVars == <<url_or_id, document_id>>

gcVars == <<gc_call, stderr, gc_result>>

setupVars ==
    <<revoke, performed, current_project, projects, selected_project, exit_code,
      setup_args, client_id_file, login_calls>>

clientVars == <<client_call, remote_requests, client_result>>

\* the state of the operations added to the converter, the retry loop,
\* extract_document_id, the gcloud wrappers and setup
concVars == <<uploads, batches>>

imgVars == <<files, replacements, pending, exported, run_no>>

inlineVars == <<md_text, md_before, rewrite_markdown, inline_result>>

\* what the API client's methods leave alone, besides the converter
otherVarsOfClient == <<upload_calls, concVars, imgVars, inlineVars>>

extVars == <<clientVars, upload_calls, concVars, imgVars, inlineVars>>

\* the state of the API client, the gcloud wrappers and setup
auxVars == <<retryVars, idVars, gcVars, setupVars, extVars>>

\* the same without the record of upload's calls
auxVarsOfUpload ==
    <<retryVars, idVars, gcVars, setupVars, clientVars, concVars, imgVars,
      inlineVars>>

vars == <<body, markdown_content, pc, doc, end_index, requests, lines,
          line_no, current_index, content, markdown_parts, elem_no, markdown,
          auxVars>>

\* Python's None, and a value not yet returned
None == "None"

NoResult == [kind |-> "none"]

\* _execute_with_retry has not been called
RetryIdle ==
    /\ attempt = 0
    /\ sleeps = <<>>
    /\ outcomes = <<>>
    /\ retry_result = NoResult

\* extract_document_id has not been called
IdIdle == url_or_id = <<>> /\ document_id = NoResult

\* no gcloud command has been run
GcIdle == gc_call = NoResult /\ stderr = <<>> /\ gc_result = NoResult

\* setup has not been started
SetupIdle ==
    /\ revoke = FALSE
    /\ performed = <<>>
    /\ current_project = None
    /\ projects = <<>>
    /\ selected_project = None
    /\ exit_code = <<>>
    /\ setup_args = NoResult
    /\ client_id_file = None
    /\ login_calls = <<>>

\* no method of the API client has been called
ClientIdle ==
    client_call = NoResult /\ remote_requests = <<>> /\ client_result = NoResult

\* no concurrent uploads are running
ConcIdle == uploads = <<>> /\ batches = <<>>

\* extract_images has not been run
ImgIdle ==
    /\ files = {}
    /\ replacements = {}
    /\ pending = <<>>
    /\ exported = <<>>
    /\ run_no = 0

\* inline_images has not been called
InlineIdle ==
    /\ md_text = <<>>
    /\ md_before = <<>>
    /\ rewrite_markdown = FALSE
    /\ inline_result = NoResult

ExtIdle ==
    ClientIdle /\ upload_calls = <<>> /\ ConcIdle /\ ImgIdle /\ InlineIdle

AuxIdle == RetryIdle /\ IdIdle /\ GcIdle /\ SetupIdle /\ ExtIdle

---------------------------------------------------------------------------
(* Bounds of the model *)

\* longest run of leading '#' of a generated markup
MaxHashes == 7
\* number of characters that follow the leading '#' run in a generated markup
MaxTail == 3
\* longest existing remote body, the sentinel newline included
MaxBody == 3
\* longest content of a text run of a generated document
MaxRunLen == 1
\* most elements of the paragraph of a one-paragraph document
MaxRuns == 2
\* most elements of a generated document
MaxElems == 2
\* most rows of a generated table
MaxRows == 2
\* most cells of a generated table row
MaxCells == 2
\* most elements of a paragraph of a document that is downloaded only
DLMaxRuns == 2

---------------------------------------------------------------------------
(* Characters and Python str methods *)

NL == "\n"

\* the characters markup is drawn from
Char == {"#", " ", "a", "|", "*", NL}

\* str.isspace() characters of the alphabet
Whitespace == {" ", NL}

Min(a, b) == IF a <= b THEN a ELSE b

\* sequences over S of length at most n
SeqsUpTo(S, n) == UNION {[1..k -> S] : k \in 0..n}

\* number of leading characters of s that belong to chars
RECURSIVE LeadingCount(_, _)
LeadingCount(s, chars) ==
    IF s = <<>> \/ Head(s) \notin chars THEN 0
    ELSE 1 + LeadingCount(Tail(s), chars)

\* number of trailing characters of s that belong to chars
RECURSIVE TrailingCount(_, _)
TrailingCount(s, chars) ==
    IF s = <<>> \/ s[Len(s)] \notin chars THEN 0
    ELSE 1 + TrailingCount(SubSeq(s, 1, Len(s) - 1), chars)

\* s.lstrip(chars)
LStrip(s, chars) == SubSeq(s, LeadingCount(s, chars) + 1, Len(s))

\* s.rstrip()
RStrip(s) == SubSeq(s, 1, Len(s) - TrailingCount(s, Whitespace))

\* s.strip()
Strip(s) == RStrip(LStrip(s, Whitespace))

\* s.startswith(c)
StartsWith(s, c) == s # <<>> /\ Head(s) = c

\* c in s
Contains(s, c) == \E i \in 1..Len(s) : s[i] = c

\* s.split(sep): the pieces between the occurrences of sep, at least one piece
RECURSIVE Split(_, _)
Split(s, sep) ==
    IF ~Contains(s, sep) THEN <<s>>
    ELSE LET i == CHOOSE k \in 1..Len(s) :
                      s[k] = sep /\ \A j \in 1..(k - 1) : s[j] # sep
         IN <<SubSeq(s, 1, i - 1)>> \o Split(SubSeq(s, i + 1, Len(s)), sep)

---------------------------------------------------------------------------
(* Edit operations, as upload builds them *)

InsertText(index, text) ==
    [op |-> "insertText", index |-> index, text |-> text]

DeleteContentRange(startIndex, endIndex) ==
    [op |-> "deleteContentRange", startIndex |-> startIndex, endIndex |-> endIndex]

UpdateParagraphStyle(startIndex, endIndex, namedStyleType) ==
    [op |-> "updateParagraphStyle", startIndex |-> startIndex,
     endIndex |-> endIndex, namedStyleType |-> namedStyleType]

\* level = len(line) - len(line.lstrip("#"))
HeadingLevel(line) == Len(line) - Len(LStrip(line, {"#"}))

\* text = line.lstrip("# ").strip()
HeadingText(line) == Strip(LStrip(line, {"#", " "}))

\* mutant: the level is not clamped
HeadingStyleUnclamped(level) == "HEADING_" \o ToString(level)

\* style = f"HEADING_{min(level, 6)}"
HeadingStyle(level) == "HEADING_" \o ToString(Min(level, 6))

\* line.startswith("|") and "|" in line[1:]
IsTableRow(line) == StartsWith(line, "|") /\ Contains(Tail(line), "|")

\* end_index = body.get("content", [{}])[-1].get("endIndex", 1)
\*             if body.get("content") else 1
EndIndexOf(d) == IF d.hasContent THEN d.endIndex ELSE 1

\* mutant: the deletion runs through the end index, sentinel included
DeleteRequestsThroughEnd(e) ==
    IF e > 1 THEN <<DeleteContentRange(1, e)>> ELSE <<>>

\* the deletion upload starts its request list with
DeleteRequests(e) ==
    IF e > 1 THEN <<DeleteContentRange(1, e - 1)>> ELSE <<>>

---------------------------------------------------------------------------
(* The remote service: one request applied to the document body *)

\* the offsets of request r are positions of body b; the last character of b
\* is the sentinel newline, which no range may contain
ValidRequest(b, r) ==
    CASE r.op = "insertText" -> 1 <= r.index /\ r.index <= Len(b)
      [] OTHER -> 1 <= r.startIndex /\ r.startIndex <= r.endIndex
                  /\ r.endIndex <= Len(b)

ApplyRequest(b, r) ==
    CASE r.op = "insertText" ->
            SubSeq(b, 1, r.index - 1) \o r.text \o SubSeq(b, r.index, Len(b))
      [] r.op = "deleteContentRange" ->
            SubSeq(b, 1, r.startIndex - 1) \o SubSeq(b, r.endIndex, Len(b))
      [] OTHER -> b

\* the body after the requests rs were applied in order
RECURSIVE ApplyAll(_, _)
ApplyAll(b, rs) ==
    IF rs = <<>> THEN b ELSE ApplyAll(ApplyRequest(b, Head(rs)), Tail(rs))

\* every request of rs is valid for the body it is applied to
RECURSIVE AllValid(_, _)
AllValid(b, rs) ==
    IF rs = <<>> THEN TRUE
    ELSE ValidRequest(b, Head(rs)) /\ AllValid(ApplyRequest(b, Head(rs)), Tail(rs))

---------------------------------------------------------------------------
(* Initial states *)

Hashes(n) == [i \in 1..n |-> "#"]

\* the markups upload is called with
Markups == {Hashes(h) \o t : h \in 0..MaxHashes, t \in SeqsUpTo(Char, MaxTail)}

\* the remote bodies: old text followed by the sentinel newline
Bodies == {[i \in 1..n |-> IF i = n THEN NL ELSE "x"] : n \in 1..MaxBody}

\* no document fetched yet
NoDoc == [hasContent |-> FALSE, endIndex |-> 0]

Init ==
    /\ body \in Bodies
    /\ markdown_content \in Markups
    /\ pc = "upload"
    /\ doc = NoDoc
    /\ end_index = 0
    /\ requests = <<>>
    /\ lines = <<>>
    /\ line_no = 0
    /\ current_index = 0
    /\ content = <<>>
    /\ markdown_parts = <<>>
    /\ elem_no = 0
    /\ markdown = <<>>
    /\ AuxIdle

---------------------------------------------------------------------------
(* GoogleDocMarkdown.upload *)

\* service.documents().get(documentId=document_id)
GetCall == [method |-> "documents.get"]

\* service.documents().batchUpdate(documentId=document_id,
\*                                 body={"requests": requests})
BatchUpdateRequest(reqs) == [method |-> "documents.batchUpdate", requests |-> reqs]

\* a variant that repeats a failed fetch
UploadFetchFailsRetried ==
    /\ pc = "upload"
    /\ upload_calls' = Append(upload_calls, GetCall)
    /\ pc' = IF Len(upload_calls) >= 1 THEN "error" ELSE "upload"
    /\ UNCHANGED <<body, markdown_content, doc, end_index, requests, lines,
                   line_no, current_index, dlVars>>
    /\ UNCHANGED auxVarsOfUpload

\* documents().get() raises HttpError; _handle_http_error raises
UploadFetchFails ==
    /\ pc = "upload"
    /\ upload_calls' = Append(upload_calls, GetCall)
    /\ pc' = "error"
    /\ UNCHANGED <<body, markdown_content, doc, end_index, requests, lines,
                   line_no, current_index, dlVars>>
    /\ UNCHANGED auxVarsOfUpload

\* the document is fetched, the deletion is queued and the markup is split
UploadFetch ==
    /\ pc = "upload"
    /\ \E hasContent \in BOOLEAN :
         doc' = [hasContent |-> hasContent, endIndex |-> Len(body) + 1]
    /\ end_index' = EndIndexOf(doc')
    /\ requests' = DeleteRequests(end_index')
    /\ lines' = Split(markdown_content, NL)
    /\ line_no' = 1
    /\ current_index' = 1
    /\ upload_calls' = Append(upload_calls, GetCall)
    /\ pc' = "lines"
    /\ UNCHANGED <<body, markdown_content, dlVars>>
    /\ UNCHANGED auxVarsOfUpload

\* the line the loop is at, after line = line.rstrip()
CurLine == RStrip(lines[line_no])

InLoop == pc = "lines" /\ line_no <= Len(lines)

\* mutant: the cursor is not advanced over the inserted newline
ProcessBlankLineNoAdvance ==
    /\ InLoop
    /\ CurLine = <<>>
    /\ requests' = Append(requests, InsertText(current_index, <<NL>>))
    /\ line_no' = line_no + 1
    /\ UNCHANGED <<body, markdown_content, pc, doc, end_index, lines,
                   current_index, dlVars>>
    /\ UNCHANGED auxVars

\* if not line: an empty line inserts a newline
ProcessBlankLine ==
    /\ InLoop
    /\ CurLine = <<>>
    /\ requests' = Append(requests, InsertText(current_index, <<NL>>))
    /\ current_index' = current_index + 1
    /\ line_no' = line_no + 1
    /\ UNCHANGED <<body, markdown_content, pc, doc, end_index, lines, dlVars>>
    /\ UNCHANGED auxVars

\* mutant: the cursor advances by len(text), the newline forgotten
ProcessHeadingShortAdvance ==
    /\ InLoop
    /\ CurLine # <<>>
    /\ StartsWith(CurLine, "#")
    /\ LET text == HeadingText(CurLine)
       IN /\ requests' = requests \o
                <<InsertText(current_index, text \o <<NL>>),
                  UpdateParagraphStyle(current_index, current_index + Len(text),
                                       HeadingStyle(HeadingLevel(CurLine)))>>
          /\ current_index' = current_index + Len(text)
    /\ line_no' = line_no + 1
    /\ UNCHANGED <<body, markdown_content, pc, doc, end_index, lines, dlVars>>
    /\ UNCHANGED auxVars

\* mutant: the style range is measured with len(line) instead of len(text)
ProcessHeadingStyleWholeLine ==
    /\ InLoop
    /\ CurLine # <<>>
    /\ StartsWith(CurLine, "#")
    /\ LET text == HeadingText(CurLine)
       IN /\ requests' = requests \o
                <<InsertText(current_index, text \o <<NL>>),
                  UpdateParagraphStyle(current_index,
                                       current_index + Len(CurLine) + 1,
                                       HeadingStyle(HeadingLevel(CurLine)))>>
          /\ current_index' = current_index + Len(text) + 1
    /\ line_no' = line_no + 1
    /\ UNCHANGED <<body, markdown_content, pc, doc, end_index, lines, dlVars>>
    /\ UNCHANGED auxVars

\* elif line.startswith("#"): a heading
ProcessHeading ==
    /\ InLoop
    /\ CurLine # <<>>
    /\ StartsWith(CurLine, "#")
    /\ LET level == HeadingLevel(CurLine)
           text == HeadingText(CurLine)
           style == HeadingStyle(level)
       IN /\ requests' = requests \o
                <<InsertText(current_index, text \o <<NL>>),
                  UpdateParagraphStyle(current_index, current_index + Len(text),
                                       style)>>
          /\ current_index' = current_index + Len(text) + 1
    /\ line_no' = line_no + 1
    /\ UNCHANGED <<body, markdown_content, pc, doc, end_index, lines, dlVars>>
    /\ UNCHANGED auxVars

\* elif line.startswith("|") and "|" in line[1:]: a table row, inserted as text
ProcessTableRow ==
    /\ InLoop
    /\ CurLine # <<>>
    /\ ~StartsWith(CurLine, "#")
    /\ IsTableRow(CurLine)
    /\ requests' = Append(requests, InsertText(current_index, CurLine \o <<NL>>))
    /\ current_index' = current_index + Len(CurLine) + 1
    /\ line_no' = line_no + 1
    /\ UNCHANGED <<body, markdown_content, pc, doc, end_index, lines, dlVars>>
    /\ UNCHANGED auxVars

\* mutant: the paragraph is stripped on both sides (line.strip())
ProcessParagraphStripped ==
    /\ InLoop
    /\ CurLine # <<>>
    /\ ~StartsWith(CurLine, "#")
    /\ ~IsTableRow(CurLine)
    /\ LET text == Strip(CurLine)
       IN /\ requests' = Append(requests, InsertText(current_index, text \o <<NL>>))
          /\ current_index' = current_index + Len(text) + 1
    /\ line_no' = line_no + 1
    /\ UNCHANGED <<body, markdown_content, pc, doc, end_index, lines, dlVars>>
    /\ UNCHANGED auxVars

\* else: a regular paragraph
ProcessParagraph ==
    /\ InLoop
    /\ CurLine # <<>>
    /\ ~StartsWith(CurLine, "#")
    /\ ~IsTableRow(CurLine)
    /\ LET text == CurLine
       IN /\ requests' = Append(requests, InsertText(current_index, text \o <<NL>>))
          /\ current_index' = current_index + Len(text) + 1
    /\ line_no' = line_no + 1
    /\ UNCHANGED <<body, markdown_content, pc, doc, end_index, lines, dlVars>>
    /\ UNCHANGED auxVars

AtBatch == pc = "lines" /\ line_no > Len(lines)

\* if requests: batchUpdate(...).execute(); the service applies the batch
\* atomically
UploadBatchUpdate ==
    /\ AtBatch
    /\ requests # <<>>
    /\ AllValid(body, requests)
    /\ body' = ApplyAll(body, requests)
    /\ upload_calls' = Append(upload_calls, BatchUpdateRequest(requests))
    /\ pc' = "done"
    /\ UNCHANGED <<markdown_content, doc, end_index, requests, lines, line_no,
                   current_index, dlVars>>
    /\ UNCHANGED auxVarsOfUpload

\* batchUpdate raises HttpError (the service rejects the batch or is
\* unreachable); nothing is applied
UploadBatchFails ==
    /\ AtBatch
    /\ requests # <<>>
    /\ upload_calls' = Append(upload_calls, BatchUpdateRequest(requests))
    /\ pc' = "error"
    /\ UNCHANGED <<body, markdown_content, doc, end_index, requests, lines,
                   line_no, current_index, dlVars>>
    /\ UNCHANGED auxVarsOfUpload

Next ==
    \/ UploadFetchFails
    \/ UploadFetch
    \/ ProcessBlankLine
    \/ ProcessHeading
    \/ ProcessTableRow
    \/ ProcessParagraph
    \/ UploadBatchUpdate
    \/ UploadBatchFails

Spec == Init /\ [][Next]_vars

---------------------------------------------------------------------------
(* The document tree *)

\* a paragraph whose paragraphStyle has no namedStyleType
Missing == "<missing>"

TextRun(text, style) == [kind |-> "textRun", content |-> text, textStyle |-> style]

Paragraph(style, elements) ==
    [kind |-> "paragraph", namedStyleType |-> style, elements |-> elements]

Cell(elements) == [content |-> elements]

Row(cells) == [tableCells |-> cells]

Table(rows) == [kind |-> "table", tableRows |-> rows]

\* an element that is neither a paragraph nor a table
SectionBreak == [kind |-> "sectionBreak"]

\* a paragraph element that is no text run
InlineObject == [kind |-> "inlineObjectElement"]

\* the concatenation of the strings of ss
RECURSIVE ConcatAll(_)
ConcatAll(ss) == IF ss = <<>> THEN <<>> ELSE Head(ss) \o ConcatAll(Tail(ss))

\* sep.join(ss)
RECURSIVE Join(_, _)
Join(sep, ss) ==
    IF ss = <<>> THEN <<>>
    ELSE IF Len(ss) = 1 THEN Head(ss)
    ELSE Head(ss) \o sep \o Join(sep, Tail(ss))

\* the text runs among the paragraph elements es ("textRun" in elem), in order
RECURSIVE SelectRuns(_)
SelectRuns(es) ==
    IF es = <<>> THEN <<>>
    ELSE (IF Head(es).kind = "textRun" THEN <<Head(es)>> ELSE <<>>)
         \o SelectRuns(Tail(es))

---------------------------------------------------------------------------
(* GoogleDocMarkdown.download *)

\* style = para.get("paragraphStyle", {}).get("namedStyleType", "NORMAL_TEXT")
NamedStyleOf(para) ==
    IF para.namedStyleType = Missing THEN "NORMAL_TEXT" ELSE para.namedStyleType

\* a variant that applies the underline tag first, inside the emphasis markers
RunMarkdownUnderlineInnermost(run) ==
    LET t0 == run.content
        t1 == IF run.textStyle.underline
              THEN <<"<", "u", ">">> \o t0 \o <<"<", "/", "u", ">">> ELSE t0
        t2 == IF run.textStyle.bold
              THEN <<"*", "*">> \o t1 \o <<"*", "*">> ELSE t1
        t3 == IF run.textStyle.italic THEN <<"*">> \o t2 \o <<"*">> ELSE t2
    IN t3

\* Apply formatting: bold, then italic, then underline, around the run's text
RunMarkdown(run) ==
    LET t0 == run.content
        t1 == IF run.textStyle.bold
              THEN <<"*", "*">> \o t0 \o <<"*", "*">> ELSE t0
        t2 == IF run.textStyle.italic THEN <<"*">> \o t1 \o <<"*">> ELSE t1
        t3 == IF run.textStyle.underline
              THEN <<"<", "u", ">">> \o t2 \o <<"<", "/", "u", ">">> ELSE t2
    IN t3

\* para_text: one formatted string per text run of the paragraph
ParaText(para) ==
    LET runs == SelectRuns(para.elements)
    IN [i \in 1..Len(runs) |-> RunMarkdown(runs[i])]

\* text_content = "".join(para_text).strip()
TextContent(para) == Strip(ConcatAll(ParaText(para)))

\* a variant that writes every heading with one marker
ParagraphLineOneMarker(style, text_content) ==
    IF style \in {"HEADING_1", "HEADING_2", "HEADING_3", "HEADING_4",
                  "HEADING_5", "HEADING_6"}
    THEN <<"#", " ">> \o text_content \o <<NL>>
    ELSE text_content \o <<NL>>

\* Apply paragraph-level formatting
ParagraphLine(style, text_content) ==
    IF style = "HEADING_1" THEN <<"#", " ">> \o text_content \o <<NL>>
    ELSE IF style = "HEADING_2" THEN <<"#", "#", " ">> \o text_content \o <<NL>>
    ELSE IF style = "HEADING_3"
        THEN <<"#", "#", "#", " ">> \o text_content \o <<NL>>
    ELSE IF style = "HEADING_4"
        THEN <<"#", "#", "#", "#", " ">> \o text_content \o <<NL>>
    ELSE IF style = "HEADING_5"
        THEN <<"#", "#", "#", "#", "#", " ">> \o text_content \o <<NL>>
    ELSE IF style = "HEADING_6"
        THEN <<"#", "#", "#", "#", "#", "#", " ">> \o text_content \o <<NL>>
    ELSE text_content \o <<NL>>

\* the strings process_element appends for a paragraph
ParagraphParts(para) ==
    IF TextContent(para) = <<>> THEN <<>>
    ELSE <<ParagraphLine(NamedStyleOf(para), TextContent(para))>>

\* _extract_text_from_element: the contents of the text runs of a paragraph
ExtractTextFromElement(elem) ==
    IF elem.kind = "paragraph"
    THEN LET runs == SelectRuns(elem.elements)
         IN [i \in 1..Len(runs) |-> runs[i].content]
    ELSE <<>>

\* " ".join(cell_text).strip() for one cell
CellText(cell) ==
    Strip(Join(<<" ">>,
               ConcatAll([i \in 1..Len(cell.content) |->
                             ExtractTextFromElement(cell.content[i])])))

\* the cell texts of a row
RowCells(row) == [i \in 1..Len(row.tableCells) |-> CellText(row.tableCells[i])]

\* "| " + " | ".join(cells) + " |\n"
RowLine(cells) ==
    <<"|", " ">> \o Join(<<" ", "|", " ">>, cells) \o <<" ", "|", NL>>

\* the lines of the data rows rows[1:], rows without cells skipped
RECURSIVE DataRowLines(_)
DataRowLines(rows) ==
    IF rows = <<>> THEN <<>>
    ELSE (IF RowCells(Head(rows)) # <<>>
          THEN <<RowLine(RowCells(Head(rows)))>> ELSE <<>>)
         \o DataRowLines(Tail(rows))

\* a variant that leaves out the blank line after the table
TablePartsNoBlankLine(table) ==
    LET rows == table.tableRows
    IN IF rows = <<>> THEN <<>>
       ELSE LET header_cells == RowCells(rows[1])
            IN IF header_cells = <<>> THEN <<>>
               ELSE <<RowLine(header_cells),
                      RowLine([i \in 1..Len(header_cells) |-> <<"-", "-", "-">>])>>
                    \o DataRowLines(Tail(rows))

\* the strings process_element appends for a table
TableParts(table) ==
    LET rows == table.tableRows
    IN IF rows = <<>> THEN <<>>
       ELSE LET header_cells == RowCells(rows[1])
            IN IF header_cells = <<>> THEN <<>>
               ELSE <<RowLine(header_cells),
                      RowLine([i \in 1..Len(header_cells) |-> <<"-", "-", "-">>])>>
                    \o DataRowLines(Tail(rows))
                    \o << <<NL>> >>

\* documents().get() raises HttpError; _handle_http_error raises
DownloadFetchFails ==
    /\ pc = "download"
    /\ pc' = "error"
    /\ UNCHANGED <<body, markdown_content, doc, end_index, requests, lines,
                   line_no, current_index, dlVars>>
    /\ UNCHANGED auxVars

\* the document is fetched; markdown_parts starts empty
DownloadFetch ==
    /\ pc = "download"
    /\ markdown_parts' = <<>>
    /\ elem_no' = 1
    /\ pc' = "elements"
    /\ UNCHANGED <<body, markdown_content, doc, end_index, requests, lines,
                   line_no, current_index, content, markdown>>
    /\ UNCHANGED auxVars

AtElement == pc = "elements" /\ elem_no <= Len(content)

\* process_element: if "paragraph" in element
ProcessElementParagraph ==
    /\ AtElement
    /\ content[elem_no].kind = "paragraph"
    /\ markdown_parts' = markdown_parts \o ParagraphParts(content[elem_no])
    /\ elem_no' = elem_no + 1
    /\ UNCHANGED <<body, markdown_content, pc, doc, end_index, requests, lines,
                   line_no, current_index, content, markdown>>
    /\ UNCHANGED auxVars

\* process_element: elif "table" in element
ProcessElementTable ==
    /\ AtElement
    /\ content[elem_no].kind = "table"
    /\ markdown_parts' = markdown_parts \o TableParts(content[elem_no])
    /\ elem_no' = elem_no + 1
    /\ UNCHANGED <<body, markdown_content, pc, doc, end_index, requests, lines,
                   line_no, current_index, content, markdown>>
    /\ UNCHANGED auxVars

\* process_element: an element with neither key emits nothing
ProcessElementOther ==
    /\ AtElement
    /\ content[elem_no].kind \notin {"paragraph", "table"}
    /\ elem_no' = elem_no + 1
    /\ UNCHANGED <<body, markdown_content, pc, doc, end_index, requests, lines,
                   line_no, current_index, content, markdown_parts, markdown>>
    /\ UNCHANGED auxVars

\* return "".join(markdown_parts); download_to_file writes it to the file
DownloadReturn ==
    /\ pc = "elements"
    /\ elem_no > Len(content)
    /\ markdown' = ConcatAll(markdown_parts)
    /\ pc' = "downloaded"
    /\ UNCHANGED <<body, markdown_content, doc, end_index, requests, lines,
                   line_no, current_index, content, markdown_parts, elem_no>>
    /\ UNCHANGED auxVars

\* main, upload command: the markup file is read and handed to upload
UploadFile ==
    /\ pc = "downloaded"
    /\ markdown_content' = markdown
    /\ pc' = "upload"
    /\ UNCHANGED <<body, doc, end_index, requests, lines, line_no,
                   current_index, dlVars>>
    /\ UNCHANGED auxVars

---------------------------------------------------------------------------
(* Documents that are downloaded and uploaded again *)

\* the characters text runs are drawn from
RunChar == {"a", " ", "#", NL}

RunTexts == SeqsUpTo(RunChar, MaxRunLen)

TextStyles == [bold : BOOLEAN, italic : BOOLEAN, underline : BOOLEAN]

Plain == [bold |-> FALSE, italic |-> FALSE, underline |-> FALSE]

Bold == [bold |-> TRUE, italic |-> FALSE, underline |-> FALSE]

NamedStyles ==
    {Missing, "NORMAL_TEXT", "HEADING_1", "HEADING_2", "HEADING_3", "HEADING_4",
     "HEADING_5", "HEADING_6", "TITLE"}

ParaElems == {TextRun(t, st) : t \in RunTexts, st \in TextStyles} \cup {InlineObject}

\* the paragraphs of the one-paragraph documents
Paragraphs ==
    {Paragraph(ns, es) : ns \in NamedStyles, es \in SeqsUpTo(ParaElems, MaxRuns)}

\* the table cells: empty, or one paragraph with one text run
Cells == {Cell(<<>>), Cell(<<Paragraph("NORMAL_TEXT", <<TextRun(<<"a">>, Plain)>>)>>)}

Tables ==
    {Table([i \in 1..Len(rs) |-> Row(rs[i])]) :
        rs \in SeqsUpTo(SeqsUpTo(Cells, MaxCells), MaxRows)}

\* the elements of the documents with several elements
SeqElems ==
    {Paragraph(ns, <<TextRun(t, st)>>) :
        ns \in {"NORMAL_TEXT", "HEADING_2"}, t \in RunTexts, st \in {Plain, Bold}}
    \cup Tables \cup {SectionBreak}

Docs == {<<p>> : p \in Paragraphs} \cup SeqsUpTo(SeqElems, MaxElems)

\* the raw text of an element: its text runs' contents, cell after cell
RECURSIVE RawText(_)
RawText(elem) ==
    IF elem.kind = "paragraph" THEN ConcatAll(ExtractTextFromElement(elem))
    ELSE IF elem.kind = "table"
    THEN ConcatAll([r \in 1..Len(elem.tableRows) |->
            ConcatAll([c \in 1..Len(elem.tableRows[r].tableCells) |->
                ConcatAll([k \in 1..Len(elem.tableRows[r].tableCells[c].content) |->
                    RawText(elem.tableRows[r].tableCells[c].content[k])])])])
    ELSE <<>>

\* the body text of a document: its raw text and the sentinel newline
BodyOf(d) == ConcatAll([i \in 1..Len(d) |-> RawText(d[i])]) \o <<NL>>

InitRT ==
    /\ content \in Docs
    /\ body = BodyOf(content)
    /\ markdown_content = <<>>
    /\ pc = "download"
    /\ doc = NoDoc
    /\ end_index = 0
    /\ requests = <<>>
    /\ lines = <<>>
    /\ line_no = 0
    /\ current_index = 0
    /\ markdown_parts = <<>>
    /\ elem_no = 0
    /\ markdown = <<>>
    /\ AuxIdle

NextRT ==
    \/ DownloadFetchFails
    \/ DownloadFetch
    \/ ProcessElementParagraph
    \/ ProcessElementTable
    \/ ProcessElementOther
    \/ DownloadReturn
    \/ UploadFile
    \/ UploadFetchFails
    \/ UploadFetch
    \/ ProcessBlankLine
    \/ ProcessHeading
    \/ ProcessTableRow
    \/ ProcessParagraph
    \/ UploadBatchUpdate
    \/ UploadBatchFails

\* a document is downloaded to a markup file and the file is uploaded
SpecRT == InitRT /\ [][NextRT]_vars

---------------------------------------------------------------------------
(* Documents that are downloaded only *)

\* the contents of the text runs
DLRunTexts == {<<>>, <<"a">>, <<" ">>}

DLParaElems ==
    {TextRun(t, st) : t \in DLRunTexts, st \in TextStyles} \cup {InlineObject}

\* paragraphs of any runs, and paragraphs of any named style
DLParagraphs ==
    {Paragraph("NORMAL_TEXT", es) : es \in SeqsUpTo(DLParaElems, DLMaxRuns)}
    \cup {Paragraph(ns, <<TextRun(t, st)>>) :
            ns \in NamedStyles, t \in DLRunTexts, st \in {Plain, Bold}}

DLCellPara(runs) ==
    Paragraph("NORMAL_TEXT", [i \in 1..Len(runs) |-> TextRun(runs[i], Plain)])

\* the table cells: no content, a paragraph of two runs, two paragraphs
DLCells ==
    {Cell(<<>>),
     Cell(<<DLCellPara(<< <<" ">>, <<"a", NL>> >>)>>),
     Cell(<<DLCellPara(<< <<"a", NL>> >>), DLCellPara(<< <<"a", NL>> >>)>>)}

\* the table rows: no cell, one cell, two cells
DLRows ==
    {Row(<<>>)} \cup {Row(<<c>>) : c \in DLCells}
    \cup {Row(<<c, d>>) : c \in DLCells, d \in DLCells}

DLTables == {Table(rs) : rs \in SeqsUpTo(DLRows, MaxRows)}

\* the documents: one paragraph, one table, or a section break and a paragraph
DLDocs ==
    {<<p>> : p \in DLParagraphs} \cup {<<t>> : t \in DLTables}
    \cup {<<SectionBreak>>}
    \cup {<<SectionBreak, Paragraph("HEADING_1", <<TextRun(<<"a">>, st)>>),
            Paragraph("NORMAL_TEXT", <<TextRun(<<"a">>, Plain)>>)>> :
            st \in TextStyles}

InitDL ==
    /\ content \in DLDocs
    /\ body = BodyOf(content)
    /\ markdown_content = <<>>
    /\ pc = "download"
    /\ doc = NoDoc
    /\ end_index = 0
    /\ requests = <<>>
    /\ lines = <<>>
    /\ line_no = 0
    /\ current_index = 0
    /\ markdown_parts = <<>>
    /\ elem_no = 0
    /\ markdown = <<>>
    /\ AuxIdle

NextDL ==
    \/ DownloadFetchFails
    \/ DownloadFetch
    \/ ProcessElementParagraph
    \/ ProcessElementTable
    \/ ProcessElementOther
    \/ DownloadReturn

\* a document is downloaded to markup
SpecDL == InitDL /\ [][NextDL]_vars

---------------------------------------------------------------------------
(* GoogleDocsAPIClient._execute_with_retry *)

MAX_RETRIES == 3

RETRY_DELAY_SECONDS == 1

RETRYABLE_ERROR_CODES == {429, 500, 502, 503, 504}

\* an HttpError without a response (e.resp is falsy)
NoResp == [present |-> FALSE]

Resp(status) == [present |-> TRUE, status |-> status]

\* what one call of api_call (and of result.execute()) does
HttpError(resp) == [kind |-> "HttpError", resp |-> resp]

OtherException(name) == [kind |-> "Exception", name |-> name]

\* api_call returns value; isRequest: it returned an HttpRequest whose
\* execute() returned value
Returns(value, isRequest) ==
    [kind |-> "value", value |-> value, isRequest |-> isRequest]

\* the statuses of the generated responses
HttpStatuses == RETRYABLE_ERROR_CODES \cup {400, 404}

HttpErrors == {HttpError(Resp(st)) : st \in HttpStatuses} \cup {HttpError(NoResp)}

OtherExceptions == {OtherException("ConnectionError")}

ReturnValues == {"document", None}

\* error_code = e.resp.status if e.resp else None;
\* error_code in RETRYABLE_ERROR_CODES
Retryable(e) ==
    /\ e.kind = "HttpError"
    /\ e.resp.present
    /\ e.resp.status \in RETRYABLE_ERROR_CODES

Returned(value) == [kind |-> "returned", value |-> value]

Raised(exc) == [kind |-> "raised", exc |-> exc]

InitRetry ==
    /\ pc = "retry"
    /\ attempt = 0
    /\ sleeps = <<>>
    /\ outcomes = <<>>
    /\ retry_result = NoResult
    /\ body = <<>>
    /\ markdown_content = <<>>
    /\ doc = NoDoc
    /\ end_index = 0
    /\ requests = <<>>
    /\ lines = <<>>
    /\ line_no = 0
    /\ current_index = 0
    /\ content = <<>>
    /\ markdown_parts = <<>>
    /\ elem_no = 0
    /\ markdown = <<>>
    /\ IdIdle /\ GcIdle /\ SetupIdle /\ ExtIdle

\* for attempt in range(MAX_RETRIES): the loop body runs
InRetryLoop == pc = "retry" /\ attempt < MAX_RETRIES

\* a variant that returns None in place of the attempt's result
AttemptReturnsNone ==
    /\ InRetryLoop
    /\ \E v \in ReturnValues, isRequest \in BOOLEAN :
          outcomes' = Append(outcomes, Returns(v, isRequest))
    /\ retry_result' = Returned(None)
    /\ pc' = "returned"
    /\ UNCHANGED <<attempt, sleeps>>
    /\ UNCHANGED <<convVars, extVars, idVars, gcVars, setupVars>>

\* result = api_call(); return result.execute() or return result
AttemptReturns ==
    /\ InRetryLoop
    /\ \E v \in ReturnValues, isRequest \in BOOLEAN :
          /\ outcomes' = Append(outcomes, Returns(v, isRequest))
          /\ retry_result' = Returned(v)
    /\ pc' = "returned"
    /\ UNCHANGED <<attempt, sleeps>>
    /\ UNCHANGED <<convVars, extVars, idVars, gcVars, setupVars>>

\* except HttpError with a retryable status, not the last attempt:
\* time.sleep(RETRY_DELAY_SECONDS * 2**attempt), next iteration
AttemptRetryableSleeps ==
    /\ InRetryLoop
    /\ attempt # MAX_RETRIES - 1
    /\ \E e \in HttpErrors :
          /\ Retryable(e)
          /\ outcomes' = Append(outcomes, e)
    /\ sleeps' = Append(sleeps, RETRY_DELAY_SECONDS * (2 ^ attempt))
    /\ attempt' = attempt + 1
    /\ UNCHANGED <<pc, retry_result>>
    /\ UNCHANGED <<convVars, extVars, idVars, gcVars, setupVars>>

\* a variant that sleeps before it raises on the last attempt
AttemptRetryableLastSleeps ==
    /\ InRetryLoop
    /\ attempt = MAX_RETRIES - 1
    /\ \E e \in HttpErrors :
          /\ Retryable(e)
          /\ outcomes' = Append(outcomes, e)
          /\ retry_result' = Raised(e)
    /\ sleeps' = Append(sleeps, RETRY_DELAY_SECONDS * (2 ^ attempt))
    /\ pc' = "raised"
    /\ UNCHANGED attempt
    /\ UNCHANGED <<convVars, extVars, idVars, gcVars, setupVars>>

\* except HttpError with a retryable status on the last attempt: raise
AttemptRetryableLast ==
    /\ InRetryLoop
    /\ attempt = MAX_RETRIES - 1
    /\ \E e \in HttpErrors :
          /\ Retryable(e)
          /\ outcomes' = Append(outcomes, e)
          /\ retry_result' = Raised(e)
    /\ pc' = "raised"
    /\ UNCHANGED <<attempt, sleeps>>
    /\ UNCHANGED <<convVars, extVars, idVars, gcVars, setupVars>>

\* a variant that treats every HttpError as retryable
AttemptNotRetryableRetried ==
    /\ InRetryLoop
    /\ \E e \in HttpErrors :
          /\ ~Retryable(e)
          /\ outcomes' = Append(outcomes, e)
          /\ IF attempt = MAX_RETRIES - 1
             THEN /\ retry_result' = Raised(e)
                  /\ pc' = "raised"
                  /\ UNCHANGED <<attempt, sleeps>>
             ELSE /\ sleeps' = Append(sleeps, RETRY_DELAY_SECONDS * (2 ^ attempt))
                  /\ attempt' = attempt + 1
                  /\ UNCHANGED <<pc, retry_result>>
    /\ UNCHANGED <<convVars, extVars, idVars, gcVars, setupVars>>

\* except HttpError, error_code not in RETRYABLE_ERROR_CODES: raise
AttemptNotRetryable ==
    /\ InRetryLoop
    /\ \E e \in HttpErrors :
          /\ ~Retryable(e)
          /\ outcomes' = Append(outcomes, e)
          /\ retry_result' = Raised(e)
    /\ pc' = "raised"
    /\ UNCHANGED <<attempt, sleeps>>
    /\ UNCHANGED <<convVars, extVars, idVars, gcVars, setupVars>>

\* except Exception: raise
AttemptOtherException ==
    /\ InRetryLoop
    /\ \E e \in OtherExceptions :
          /\ outcomes' = Append(outcomes, e)
          /\ retry_result' = Raised(e)
    /\ pc' = "raised"
    /\ UNCHANGED <<attempt, sleeps>>
    /\ UNCHANGED <<convVars, extVars, idVars, gcVars, setupVars>>

\* the statements after the loop are not reached: with MAX_RETRIES >= 1 the
\* last iteration returns or raises
NextRetry ==
    \/ AttemptReturns
    \/ AttemptRetryableSleeps
    \/ AttemptRetryableLast
    \/ AttemptNotRetryable
    \/ AttemptOtherException

SpecRetry == InitRetry /\ [][NextRetry]_vars

\* api_call and time.sleep return: the loop goes on until it returns or raises
SpecRetryFair == SpecRetry /\ WF_vars(NextRetry)

---------------------------------------------------------------------------
(* GoogleDocsAPIClient.extract_document_id *)

\* longest generated run of one repeated character
MaxIdLen == 11

\* the characters of the class [a-zA-Z0-9-_] that the generated inputs use
IdChar ==
    {"a", "b", "c", "d", "e", "f", "g", "h", "i", "j", "k", "l", "m", "n",
     "o", "p", "q", "r", "s", "t", "u", "v", "w", "x", "y", "z", "A", "Z",
     "0", "1", "2", "3", "4", "5", "6", "9", "-", "_"}

\* the least number of characters of a bare document id: {10,}
MinIdLen == 10

\* pattern occurs in s at position i
MatchAt(s, pattern, i) ==
    /\ i + Len(pattern) - 1 <= Len(s)
    /\ SubSeq(s, i, i + Len(pattern) - 1) = pattern

\* the length of the longest run of id characters of s that starts at i
RECURSIVE IdRunLen(_, _)
IdRunLen(s, i) ==
    IF i > Len(s) \/ s[i] \notin IdChar THEN 0 ELSE 1 + IdRunLen(s, i + 1)

\* the positions where prefix followed by ([a-zA-Z0-9-_]+) matches
MatchPositions(s, prefix) ==
    {i \in 1..Len(s) :
        MatchAt(s, prefix, i) /\ IdRunLen(s, i + Len(prefix)) >= 1}

NoMatch == [matched |-> FALSE]

\* re.search(prefix + "([a-zA-Z0-9-_]+)", s): the leftmost match, group(1)
\* being the longest run of id characters after the prefix
ReSearch(s, prefix) ==
    IF MatchPositions(s, prefix) = {} THEN NoMatch
    ELSE LET i == CHOOSE i \in MatchPositions(s, prefix) :
                     \A j \in MatchPositions(s, prefix) : i <= j
             from == i + Len(prefix)
         IN [matched |-> TRUE,
             group1 |-> SubSeq(s, from, from + IdRunLen(s, from) - 1)]

\* re.match(r"^[a-zA-Z0-9-_]{10,}$", s): '$' matches at the end of s and
\* also just before a newline that is the last character of s
ReMatchBareId(s) ==
    LET n == IdRunLen(s, 1)
    IN /\ n >= MinIdLen
       /\ \/ n = Len(s)
          \/ n = Len(s) - 1 /\ s[Len(s)] = NL

DocumentPattern == <<"/", "d", "o", "c", "u", "m", "e", "n", "t", "/", "d", "/">>

IdPattern == <<"i", "d", "=">>

\* extract_document_id(url_or_id)
ExtractDocumentId(s) ==
    IF ReSearch(s, DocumentPattern).matched
    THEN Returned(ReSearch(s, DocumentPattern).group1)
    ELSE IF ReSearch(s, IdPattern).matched
    THEN Returned(ReSearch(s, IdPattern).group1)
    ELSE IF ~Contains(s, "/") /\ ~Contains(s, ".") /\ ReMatchBareId(s)
    THEN Returned(s)
    ELSE Raised("ValueError")

\* the generated inputs: a prefix, a marker, an id and a suffix
IdPrefixes ==
    {<<>>, <<"x">>,
     <<"h", "t", "t", "p", "s", ":", "/", "/", "d", "o", "c", "s", ".", "g", "o", "o", "g", "l", "e", ".", "c", "o", "m">>}

IdMarkers == {<<>>, DocumentPattern, IdPattern, <<"?", "i", "d", "=">>, <<"/", "d", "/">>}

IdBodies ==
    {[i \in 1..n |-> c] : n \in 0..MaxIdLen, c \in {"a", "-"}}
    \cup {<<"a", "b", "c", "1", "2", "3", "d", "e", "f", "4", "5", "6">>,
          <<"s", "h", "o", "r", "t">>,
          <<"i", "n", "v", "a", "l", "i", "d">>,
          <<"a", "_", "b", "-", "c", "_", "d", "-", "e", "_", "Z", "9">>,
          <<"a", "b", "c", " ", "d", "e", "f", " ", "g", "h", "i", " ", "j", "k">>}

IdSuffixes ==
    {<<>>, <<NL>>, <<".">>, <<" ">>, <<"/", "e", "d", "i", "t">>, <<"/", "v", "i", "e", "w">>,
     <<"/", "e", "d", "i", "t", "?", "u", "s", "p", "=", "s", "h", "a", "r", "i", "n", "g">>,
     <<"?", "u", "s", "p", "=", "s", "h", "a", "r", "i", "n", "g">>}

IdInputs ==
    {p \o mk \o b \o sf :
        p \in IdPrefixes, mk \in IdMarkers, b \in IdBodies, sf \in IdSuffixes}

InitId ==
    /\ pc = "extract"
    /\ url_or_id \in IdInputs
    /\ document_id = NoResult
    /\ body = <<>>
    /\ markdown_content = <<>>
    /\ doc = NoDoc
    /\ end_index = 0
    /\ requests = <<>>
    /\ lines = <<>>
    /\ line_no = 0
    /\ current_index = 0
    /\ content = <<>>
    /\ markdown_parts = <<>>
    /\ elem_no = 0
    /\ markdown = <<>>
    /\ RetryIdle /\ GcIdle /\ SetupIdle /\ ExtIdle

\* the call returns the id or raises ValueError
ExtractDocumentIdCall ==
    /\ pc = "extract"
    /\ document_id' = ExtractDocumentId(url_or_id)
    /\ pc' = "extracted"
    /\ UNCHANGED <<convVars, extVars, url_or_id, retryVars, gcVars, setupVars>>

NextId == ExtractDocumentIdCall

SpecId == InitId /\ [][NextId]_vars

---------------------------------------------------------------------------
(* gcloud_run and gcloud_exec *)

\* Python's True and False as returned values
PyTrue == "True"

PyFalse == "False"

\* A message is a sequence of pieces of text: the literal parts of the
\* f-string and the values formatted into it.

\* " ".join(command)
JoinCommand(command) ==
    Join(<<" ">>, [i \in 1..Len(command) |-> <<command[i]>>])

\* full_command = ["gcloud"] + command
FullCommand(command) == <<"gcloud">> \o command

\* the three errors subprocess.run raises
SubprocessErrors == {"FileNotFoundError", "CalledProcessError", "TimeoutExpired"}

\* str(e) of a subprocess error
ErrorText(e) == "str(" \o e \o ")"

\* error_message of the except FileNotFoundError branch
NotFoundMessage(operation) ==
    <<"Error: gcloud CLI not found. Cannot ", operation,
      ".\nPlease install the Google Cloud SDK:\n  https://cloud.google.com/sdk/docs/install\nOr use: brew install google-cloud-sdk (on macOS)">>

\* error_message of the except subprocess.CalledProcessError branch
CalledProcessMessage(operation, full_command) ==
    <<"Error ", operation, ": ", ErrorText("CalledProcessError"), "\nCommand: ">>
    \o JoinCommand(full_command)

\* error_message of the except subprocess.TimeoutExpired branch
TimeoutMessage(operation, full_command) ==
    <<"Error: gcloud command timed out while ", operation, ".\n", "Command: ">>
    \o JoinCommand(full_command)

\* GCloudException(message, operation, command, original_error); text is
\* the full_message handed to Exception.__init__
GCloudException(message, operation, command, original_error) ==
    [kind |-> "GCloudException",
     message |-> message,
     operation |-> operation,
     command |-> command,
     original_error |-> original_error,
     text |-> message \o <<"\nOperation: ", operation, "\nCommand: ">>
              \o JoinCommand(command)]

\* the generated arguments and subprocess behaviours
GcOperations == {"getting project", "setting project"}

GcCommands ==
    {<<"config", "get-value", "project">>, <<"projects", "list">>, <<"version">>}

GcStdouts == {<<>>, <<NL>>, <<"p">>, <<" ", "p", NL>>}

GcBehaviours ==
    {[error |-> e] : e \in SubprocessErrors}
    \cup {[error |-> "none", stdout |-> out] : out \in GcStdouts}

GcCalls ==
    {[fn |-> fn, command |-> c, operation |-> op, raise_exception |-> r,
      behaviour |-> b] :
        fn \in {"gcloud_run", "gcloud_exec"}, c \in GcCommands,
        op \in GcOperations, r \in BOOLEAN, b \in GcBehaviours}

InitGc ==
    /\ pc = "gcloud"
    /\ gc_call \in GcCalls
    /\ stderr = <<>>
    /\ gc_result = NoResult
    /\ body = <<>>
    /\ markdown_content = <<>>
    /\ doc = NoDoc
    /\ end_index = 0
    /\ requests = <<>>
    /\ lines = <<>>
    /\ line_no = 0
    /\ current_index = 0
    /\ content = <<>>
    /\ markdown_parts = <<>>
    /\ elem_no = 0
    /\ markdown = <<>>
    /\ RetryIdle /\ IdIdle /\ SetupIdle /\ ExtIdle

\* what the function returns when it echoes: None (gcloud_run), False
\* (gcloud_exec)
FailureValue(fn) == IF fn = "gcloud_run" THEN None ELSE PyFalse

\* a variant that echoes the message and then raises
FailVariantEchoAndRaise(error_message, e) ==
    /\ pc' = "gcloud_done"
    /\ stderr' = Append(stderr, error_message)
    /\ gc_result' =
          IF gc_call.raise_exception
          THEN Raised(GCloudException(error_message, gc_call.operation,
                                      FullCommand(gc_call.command), e))
          ELSE Returned(FailureValue(gc_call.fn))
    /\ UNCHANGED <<gc_call, convVars, extVars, retryVars, idVars, setupVars>>

\* if raise_exception: raise GCloudException(...) from e;
\* typer.echo(error_message, err=True); return None / return False
Fail(error_message, e) ==
    /\ pc' = "gcloud_done"
    /\ IF gc_call.raise_exception
       THEN /\ gc_result' =
                  Raised(GCloudException(error_message, gc_call.operation,
                                         FullCommand(gc_call.command), e))
            /\ UNCHANGED stderr
       ELSE /\ stderr' = Append(stderr, error_message)
            /\ gc_result' = Returned(FailureValue(gc_call.fn))
    /\ UNCHANGED <<gc_call, convVars, extVars, retryVars, idVars, setupVars>>

\* subprocess.run returns: gcloud_run returns the stripped stdout, or None
\* for an empty stdout; gcloud_exec returns True
GcloudSucceeds ==
    /\ pc = "gcloud"
    /\ gc_call.behaviour.error = "none"
    /\ gc_result' =
          IF gc_call.fn = "gcloud_exec" THEN Returned(PyTrue)
          ELSE IF gc_call.behaviour.stdout = <<>> THEN Returned(None)
          ELSE Returned(Strip(gc_call.behaviour.stdout))
    /\ pc' = "gcloud_done"
    /\ UNCHANGED <<gc_call, stderr, convVars, extVars, retryVars, idVars, setupVars>>

\* except FileNotFoundError as e
GcloudNotFound ==
    /\ pc = "gcloud"
    /\ gc_call.behaviour.error = "FileNotFoundError"
    /\ Fail(NotFoundMessage(gc_call.operation), "FileNotFoundError")

\* except subprocess.CalledProcessError as e
GcloudCalledProcessError ==
    /\ pc = "gcloud"
    /\ gc_call.behaviour.error = "CalledProcessError"
    /\ Fail(CalledProcessMessage(gc_call.operation, FullCommand(gc_call.command)),
            "CalledProcessError")

\* except subprocess.TimeoutExpired as e
GcloudTimeout ==
    /\ pc = "gcloud"
    /\ gc_call.behaviour.error = "TimeoutExpired"
    /\ Fail(TimeoutMessage(gc_call.operation, FullCommand(gc_call.command)),
            "TimeoutExpired")

NextGc ==
    \/ GcloudSucceeds
    \/ GcloudNotFound
    \/ GcloudCalledProcessError
    \/ GcloudTimeout

SpecGc == InitGc /\ [][NextGc]_vars

---------------------------------------------------------------------------
(* setup *)

\* most invalid answers given at the project prompt
MaxPrompts == 2

\* a helper was called and returned a truthy (ok) or falsy value
Step(name, ok) == [step |-> name, ok |-> ok]

\* the generated project ids and project lists
ProjectIds == {"p1", "p2"}

ProjectLists == {<<>>, <<"p1">>, <<"p1", "p2">>}

\* the answers typed at the prompt: a number, or some other text
Choices ==
    {[isdigit |-> TRUE, number |-> n] : n \in 0..3}
    \cup {[isdigit |-> FALSE, text |-> t] : t \in ProjectIds \cup {"other"}}

\* str(Path.home() / ".config" / "google-docs-markdown" / "client_id_file.json")
DefaultClientIdPath == "~/.config/google-docs-markdown/client_id_file.json"

\* the generated arguments, and whether the default client id file exists
SetupArgs ==
    [extra_scopes : {"", "scope"},
     client_id_file : {None, "", "client.json"},
     default_exists : BOOLEAN]

\* the state when Step 1 begins: client_id_file is the default path if none
\* was given and the file exists
InitSetup ==
    /\ pc = "check_gcloud_installed"
    /\ revoke \in BOOLEAN
    /\ performed = <<>>
    /\ current_project = None
    /\ projects = <<>>
    /\ selected_project = None
    /\ exit_code = <<>>
    /\ setup_args \in SetupArgs
    /\ client_id_file =
          IF setup_args.client_id_file \in {None, ""} /\ setup_args.default_exists
          THEN DefaultClientIdPath
          ELSE setup_args.client_id_file
    /\ login_calls = <<>>
    /\ body = <<>>
    /\ markdown_content = <<>>
    /\ doc = NoDoc
    /\ end_index = 0
    /\ requests = <<>>
    /\ lines = <<>>
    /\ line_no = 0
    /\ current_index = 0
    /\ content = <<>>
    /\ markdown_parts = <<>>
    /\ elem_no = 0
    /\ markdown = <<>>
    /\ RetryIdle /\ IdIdle /\ GcIdle /\ ExtIdle

\* sys.exit(1)
SysExit ==
    /\ exit_code' = Append(exit_code, 1)
    /\ pc' = "setup_exit"

\* Step 1: if not check_gcloud_installed(): sys.exit(1)
CheckGcloudInstalled ==
    /\ pc = "check_gcloud_installed"
    /\ \E ok \in BOOLEAN :
          /\ performed' = Append(performed, Step("check_gcloud_installed", ok))
          /\ IF ok
             THEN /\ pc' = IF revoke THEN "revoke_credentials"
                           ELSE "check_credentials_exist"
                  /\ UNCHANGED exit_code
             ELSE SysExit
    /\ UNCHANGED <<revoke, current_project, projects, selected_project>>
    /\ UNCHANGED <<convVars, extVars, retryVars, idVars, gcVars>>
    /\ UNCHANGED <<setup_args, client_id_file, login_calls>>

\* a variant that exits when the revocation fails
RevokeCredentialsRequired ==
    /\ pc = "revoke_credentials"
    /\ \E ok \in BOOLEAN :
          /\ performed' = Append(performed, Step("revoke_credentials", ok))
          /\ IF ok
             THEN pc' = "check_credentials_exist" /\ UNCHANGED exit_code
             ELSE SysExit
    /\ UNCHANGED <<revoke, current_project, projects, selected_project>>
    /\ UNCHANGED <<convVars, extVars, retryVars, idVars, gcVars>>
    /\ UNCHANGED <<setup_args, client_id_file, login_calls>>

\* Step 2, if revoke: revoke_credentials(); a failure is only a warning
RevokeCredentials ==
    /\ pc = "revoke_credentials"
    /\ \E ok \in BOOLEAN :
          performed' = Append(performed, Step("revoke_credentials", ok))
    /\ pc' = "check_credentials_exist"
    /\ UNCHANGED <<revoke, current_project, projects, selected_project,
                   exit_code>>
    /\ UNCHANGED <<convVars, extVars, retryVars, idVars, gcVars>>
    /\ UNCHANGED <<setup_args, client_id_file, login_calls>>

\* a variant that logs in whether or not credentials exist
CheckCredentialsExistAlwaysLogin ==
    /\ pc = "check_credentials_exist"
    /\ \E exist \in BOOLEAN :
          performed' = Append(performed, Step("check_credentials_exist", exist))
    /\ pc' = "run_auth_login"
    /\ UNCHANGED <<revoke, current_project, projects, selected_project,
                   exit_code>>
    /\ UNCHANGED <<convVars, extVars, retryVars, idVars, gcVars>>
    /\ UNCHANGED <<setup_args, client_id_file, login_calls>>

\* if check_credentials_exist() and not revoke: nothing to do; else login
CheckCredentialsExist ==
    /\ pc = "check_credentials_exist"
    /\ \E exist \in BOOLEAN :
          /\ performed' = Append(performed, Step("check_credentials_exist", exist))
          /\ pc' = IF exist /\ ~revoke THEN "get_current_project"
                   ELSE "run_auth_login"
    /\ UNCHANGED <<revoke, current_project, projects, selected_project,
                   exit_code>>
    /\ UNCHANGED <<convVars, extVars, retryVars, idVars, gcVars>>
    /\ UNCHANGED <<setup_args, client_id_file, login_calls>>

\* if not run_auth_login(extra_scopes, client_id_file): sys.exit(1)
RunAuthLogin ==
    /\ pc = "run_auth_login"
    /\ \E ok \in BOOLEAN :
          /\ performed' = Append(performed, Step("run_auth_login", ok))
          /\ login_calls' = Append(login_calls,
                                    [extra_scopes |-> setup_args.extra_scopes,
                                     client_id_file |-> client_id_file])
          /\ IF ok
             THEN pc' = "get_current_project" /\ UNCHANGED exit_code
             ELSE SysExit
    /\ UNCHANGED <<revoke, current_project, projects, selected_project>>
    /\ UNCHANGED <<convVars, extVars, retryVars, idVars, gcVars>>
    /\ UNCHANGED <<setup_args, client_id_file>>

\* Step 3: current_project = get_current_project(), a project id or None
GetCurrentProject ==
    /\ pc = "get_current_project"
    /\ \E p \in ProjectIds \cup {None} :
          /\ current_project' = p
          /\ performed' = Append(performed, Step("get_current_project", p # None))
          /\ pc' = IF p # None THEN "check_api_enabled"
                   ELSE "list_available_projects"
    /\ UNCHANGED <<revoke, projects, selected_project, exit_code>>
    /\ UNCHANGED <<convVars, extVars, retryVars, idVars, gcVars>>
    /\ UNCHANGED <<setup_args, client_id_file, login_calls>>

\* projects = list_available_projects(); if not projects: sys.exit(1)
ListAvailableProjects ==
    /\ pc = "list_available_projects"
    /\ \E ps \in ProjectLists :
          /\ projects' = ps
          /\ performed' =
                Append(performed, Step("list_available_projects", ps # <<>>))
          /\ IF ps # <<>>
             THEN pc' = "prompt" /\ UNCHANGED exit_code
             ELSE SysExit
    /\ UNCHANGED <<revoke, current_project, selected_project>>
    /\ UNCHANGED <<convVars, extVars, retryVars, idVars, gcVars>>
    /\ UNCHANGED <<setup_args, client_id_file, login_calls>>

\* the project an answer selects, None when it selects none
Selection(choice) ==
    IF choice.isdigit
    THEN (IF 0 <= choice.number - 1 /\ choice.number - 1 < Len(projects)
          THEN projects[choice.number] ELSE None)
    ELSE (IF \E i \in 1..Len(projects) : projects[i] = choice.text
          THEN choice.text ELSE None)

\* the number of answers given at the prompt so far
Prompts == Len(SelectSeq(performed, LAMBDA st : st.step = "prompt"))

\* while True: an answer that selects a project leaves the loop
PromptSelects ==
    /\ pc = "prompt"
    /\ \E choice \in Choices :
          /\ Selection(choice) # None
          /\ selected_project' = Selection(choice)
    /\ performed' = Append(performed, Step("prompt", TRUE))
    /\ pc' = "set_project"
    /\ UNCHANGED <<revoke, current_project, projects, exit_code>>
    /\ UNCHANGED <<convVars, extVars, retryVars, idVars, gcVars>>
    /\ UNCHANGED <<setup_args, client_id_file, login_calls>>

\* a number out of range or an unknown id: the prompt is shown again
PromptInvalid ==
    /\ pc = "prompt"
    /\ Prompts < MaxPrompts
    /\ \E choice \in Choices : Selection(choice) = None
    /\ performed' = Append(performed, Step("prompt", FALSE))
    /\ UNCHANGED <<pc, revoke, current_project, projects, selected_project,
                   exit_code>>
    /\ UNCHANGED <<convVars, extVars, retryVars, idVars, gcVars>>
    /\ UNCHANGED <<setup_args, client_id_file, login_calls>>

\* except KeyboardInterrupt: sys.exit(1)
PromptInterrupted ==
    /\ pc = "prompt"
    /\ performed' = Append(performed, Step("KeyboardInterrupt", FALSE))
    /\ SysExit
    /\ UNCHANGED <<revoke, current_project, projects, selected_project>>
    /\ UNCHANGED <<convVars, extVars, retryVars, idVars, gcVars>>
    /\ UNCHANGED <<setup_args, client_id_file, login_calls>>

\* a variant that goes on to Step 4 when set_project fails
SetProjectIgnoresFailure ==
    /\ pc = "set_project"
    /\ \E ok \in BOOLEAN :
          performed' = Append(performed, Step("set_project", ok))
    /\ current_project' = selected_project
    /\ pc' = "check_api_enabled"
    /\ UNCHANGED <<revoke, projects, selected_project, exit_code>>
    /\ UNCHANGED <<convVars, extVars, retryVars, idVars, gcVars>>
    /\ UNCHANGED <<setup_args, client_id_file, login_calls>>

\* if not set_project(selected_project): sys.exit(1);
\* current_project = selected_project
SetProject ==
    /\ pc = "set_project"
    /\ \E ok \in BOOLEAN :
          /\ performed' = Append(performed, Step("set_project", ok))
          /\ IF ok
             THEN /\ current_project' = selected_project
                  /\ pc' = "check_api_enabled"
                  /\ UNCHANGED exit_code
             ELSE SysExit /\ UNCHANGED current_project
    /\ UNCHANGED <<revoke, projects, selected_project>>
    /\ UNCHANGED <<convVars, extVars, retryVars, idVars, gcVars>>
    /\ UNCHANGED <<setup_args, client_id_file, login_calls>>

\* Step 4: current_project is a project id here (get_current_project gives
\* None for an empty name, list_available_projects drops empty names), so
\* the exit under `if not current_project` is not reached.
\* if check_api_enabled(current_project): done; else enable the API
CheckApiEnabled ==
    /\ pc = "check_api_enabled"
    /\ \E enabled \in BOOLEAN :
          /\ performed' = Append(performed, Step("check_api_enabled", enabled))
          /\ pc' = IF enabled THEN "setup_complete" ELSE "enable_docs_api"
    /\ UNCHANGED <<revoke, current_project, projects, selected_project,
                   exit_code>>
    /\ UNCHANGED <<convVars, extVars, retryVars, idVars, gcVars>>
    /\ UNCHANGED <<setup_args, client_id_file, login_calls>>

\* if not enable_docs_api(current_project): sys.exit(1); "Setup complete!"
EnableDocsApi ==
    /\ pc = "enable_docs_api"
    /\ \E ok \in BOOLEAN :
          /\ performed' = Append(performed, Step("enable_docs_api", ok))
          /\ IF ok
             THEN pc' = "setup_complete" /\ UNCHANGED exit_code
             ELSE SysExit
    /\ UNCHANGED <<revoke, current_project, projects, selected_project>>
    /\ UNCHANGED <<convVars, extVars, retryVars, idVars, gcVars>>
    /\ UNCHANGED <<setup_args, client_id_file, login_calls>>

NextSetup ==
    \/ CheckGcloudInstalled
    \/ RevokeCredentials
    \/ CheckCredentialsExist
    \/ RunAuthLogin
    \/ GetCurrentProject
    \/ ListAvailableProjects
    \/ PromptSelects
    \/ PromptInvalid
    \/ PromptInterrupted
    \/ SetProject
    \/ CheckApiEnabled
    \/ EnableDocsApi

SpecSetup == InitSetup /\ [][NextSetup]_vars

\* the helpers return: setup goes on until it completes or exits
SpecSetupFair == SpecSetup /\ WF_vars(NextSetup)

---------------------------------------------------------------------------
(* GoogleDocsAPIClient.get_document, batch_update and is_multi_tab *)

\* the converter has not been started
ConvIdle ==
    /\ body = <<>>
    /\ markdown_content = <<>>
    /\ doc = NoDoc
    /\ end_index = 0
    /\ requests = <<>>
    /\ lines = <<>>
    /\ line_no = 0
    /\ current_index = 0
    /\ content = <<>>
    /\ markdown_parts = <<>>
    /\ elem_no = 0
    /\ markdown = <<>>

Tab(tabId) == [tabId |-> tabId]

\* the "tabs" lists of the generated documents
ClientTabs == {<<>>, <<Tab("tab1")>>, <<Tab("tab1"), Tab("tab2")>>}

\* the documents documents().get() returns: without and with a "tabs" key
ClientDocuments ==
    {[title |-> "Test Doc"]}
    \cup {[title |-> "Test Doc", tabs |-> t] : t \in ClientTabs}

\* the responses documents().batchUpdate() returns
BatchResponses == {[replies |-> <<>>]}

\* the generated document_id arguments: two URLs, two bare ids, and three
\* strings without an id
ClientArgs ==
    {<<"h", "t", "t", "p", "s", ":", "/", "/", "d", "o", "c", "s", ".", "g", "o", "o", "g", "l", "e", ".", "c", "o", "m">>
        \o DocumentPattern \o <<"a", "b", "c", "1", "2", "3", "d", "e", "f", "4", "5", "6">>
        \o <<"/", "e", "d", "i", "t">>,
     <<"h", "t", "t", "p", "s", ":", "/", "/", "x", "?">> \o IdPattern
        \o <<"t", "e", "s", "t", "-", "d", "o", "c", "-", "i", "d">>,
     <<"t", "e", "s", "t", "-", "d", "o", "c", "-", "i", "d">>,
     <<"a", "b", "c", "1", "2", "3", "d", "e", "f", "4", "5", "6">>,
     <<"i", "n", "v", "a", "l", "i", "d">>,
     <<"h", "t", "t", "p", "s", ":", "/", "/", "x", "/", "a", "b", "c", "1", "2", "3", "d", "e", "f", "4", "5", "6">>,
     <<>>}

GetDocumentCall(include_tabs_content) ==
    [method |-> "get_document", include_tabs_content |-> include_tabs_content]

BatchUpdateCall(reqs) == [method |-> "batch_update", requests |-> reqs]

IsMultiTabCall == [method |-> "is_multi_tab"]

ClientCalls ==
    {GetDocumentCall(b) : b \in BOOLEAN}
    \cup {BatchUpdateCall(r) : r \in {<<>>, <<InsertText(1, <<"a">>)>>}}
    \cup {IsMultiTabCall}

\* the request the lambda handed to _execute_with_retry sends
ServiceRequest(call, id) ==
    IF call.method = "batch_update"
    THEN [method |-> "documents.batchUpdate", documentId |-> id,
          body |-> call.requests]
    ELSE [method |-> "documents.get", documentId |-> id,
          includeTabsContent |->
              IF call.method = "is_multi_tab" THEN TRUE
              ELSE call.include_tabs_content]

\* what execute() returns for the request of call
ServiceValues(call) ==
    IF call.method = "batch_update" THEN BatchResponses ELSE ClientDocuments

\* doc.get("tabs", [])
TabsOf(d) == IF "tabs" \in DOMAIN d THEN d.tabs ELSE <<>>

\* is_multi_tab, given what its call of get_document returned or raised:
\* return len(tabs) > 0; except Exception: return False
IsMultiTab(r) ==
    IF r.kind = "returned"
    THEN Returned(IF Len(TabsOf(r.value)) > 0 THEN PyTrue ELSE PyFalse)
    ELSE Returned(PyFalse)

\* what the called method makes of the result of its body
ClientResult(call, r) == IF call.method = "is_multi_tab" THEN IsMultiTab(r) ELSE r

InitClient ==
    /\ pc = "client_extract"
    /\ client_call \in ClientCalls
    /\ url_or_id \in ClientArgs
    /\ document_id = NoResult
    /\ remote_requests = <<>>
    /\ client_result = NoResult
    /\ ConvIdle /\ RetryIdle /\ GcIdle /\ SetupIdle
    /\ upload_calls = <<>> /\ ConcIdle /\ ImgIdle /\ InlineIdle

\* document_id = self.extract_document_id(document_id)
ClientExtractId ==
    /\ pc = "client_extract"
    /\ ExtractDocumentId(url_or_id).kind = "returned"
    /\ document_id' = ExtractDocumentId(url_or_id)
    /\ pc' = "client_retry"
    /\ UNCHANGED <<url_or_id, client_call, remote_requests, client_result>>
    /\ UNCHANGED <<convVars, retryVars, gcVars, setupVars, otherVarsOfClient>>

\* a variant that sends the argument as it is when no id is found in it
ClientExtractIdFailsSendsArgument ==
    /\ pc = "client_extract"
    /\ ExtractDocumentId(url_or_id).kind = "raised"
    /\ document_id' = Returned(url_or_id)
    /\ pc' = "client_retry"
    /\ UNCHANGED <<url_or_id, client_call, remote_requests, client_result>>
    /\ UNCHANGED <<convVars, retryVars, gcVars, setupVars, otherVarsOfClient>>

\* extract_document_id raises ValueError: the method's body ends there
ClientExtractIdFails ==
    /\ pc = "client_extract"
    /\ ExtractDocumentId(url_or_id).kind = "raised"
    /\ document_id' = ExtractDocumentId(url_or_id)
    /\ client_result' = ClientResult(client_call, document_id')
    /\ pc' = "client_done"
    /\ UNCHANGED <<url_or_id, client_call, remote_requests>>
    /\ UNCHANGED <<convVars, retryVars, gcVars, setupVars, otherVarsOfClient>>

InClientLoop == pc = "client_retry" /\ attempt < MAX_RETRIES

\* api_call(): the request is sent with the local document_id; o is what
\* execute() does
Send(o) ==
    /\ remote_requests' =
          Append(remote_requests, ServiceRequest(client_call, document_id.value))
    /\ outcomes' = Append(outcomes, o)

\* the retry loop ends with r
ClientEnds(r) ==
    /\ retry_result' = r
    /\ client_result' = ClientResult(client_call, r)
    /\ pc' = "client_done"
    /\ UNCHANGED <<attempt, sleeps>>

\* result = api_call(); return result
ClientAttemptReturns ==
    /\ InClientLoop
    /\ \E v \in ServiceValues(client_call) :
          /\ Send(Returns(v, FALSE))
          /\ ClientEnds(Returned(v))
    /\ UNCHANGED <<client_call, idVars, convVars, gcVars, setupVars, otherVarsOfClient>>

\* except HttpError with a retryable status, not the last attempt
ClientAttemptRetryableSleeps ==
    /\ InClientLoop
    /\ attempt # MAX_RETRIES - 1
    /\ \E e \in HttpErrors :
          /\ Retryable(e)
          /\ Send(e)
    /\ sleeps' = Append(sleeps, RETRY_DELAY_SECONDS * (2 ^ attempt))
    /\ attempt' = attempt + 1
    /\ UNCHANGED <<pc, retry_result, client_result>>
    /\ UNCHANGED <<client_call, idVars, convVars, gcVars, setupVars, otherVarsOfClient>>

\* except HttpError with a retryable status on the last attempt: raise
ClientAttemptRetryableLast ==
    /\ InClientLoop
    /\ attempt = MAX_RETRIES - 1
    /\ \E e \in HttpErrors :
          /\ Retryable(e)
          /\ Send(e)
          /\ ClientEnds(Raised(e))
    /\ UNCHANGED <<client_call, idVars, convVars, gcVars, setupVars, otherVarsOfClient>>

\* except HttpError, error_code not in RETRYABLE_ERROR_CODES: raise
ClientAttemptNotRetryable ==
    /\ InClientLoop
    /\ \E e \in HttpErrors :
          /\ ~Retryable(e)
          /\ Send(e)
          /\ ClientEnds(Raised(e))
    /\ UNCHANGED <<client_call, idVars, convVars, gcVars, setupVars, otherVarsOfClient>>

\* except Exception: raise
ClientAttemptOtherException ==
    /\ InClientLoop
    /\ \E e \in OtherExceptions :
          /\ Send(e)
          /\ ClientEnds(Raised(e))
    /\ UNCHANGED <<client_call, idVars, convVars, gcVars, setupVars, otherVarsOfClient>>

NextClient ==
    \/ ClientExtractId
    \/ ClientExtractIdFails
    \/ ClientAttemptReturns
    \/ ClientAttemptRetryableSleeps
    \/ ClientAttemptRetryableLast
    \/ ClientAttemptNotRetryable
    \/ ClientAttemptOtherException

SpecClient == InitClient /\ [][NextClient]_vars

---------------------------------------------------------------------------
(* Two uploads to the same document at the same time *)

\* the text a line of the markup inserts, without its newline
LineText(line) ==
    IF RStrip(line) = <<>> THEN <<>>
    ELSE IF StartsWith(RStrip(line), "#") THEN HeadingText(RStrip(line))
    ELSE RStrip(line)

\* the requests the loop body appends for line when the cursor is at index
LineRequests(line, index) ==
    IF RStrip(line) # <<>> /\ StartsWith(RStrip(line), "#")
    THEN <<InsertText(index, LineText(line) \o <<NL>>),
           UpdateParagraphStyle(index, index + Len(LineText(line)),
                                HeadingStyle(HeadingLevel(RStrip(line))))>>
    ELSE <<InsertText(index, LineText(line) \o <<NL>>)>>

\* the requests of the loop over the lines ls, the cursor starting at index
RECURSIVE LinesRequests(_, _)
LinesRequests(ls, index) ==
    IF ls = <<>> THEN <<>>
    ELSE LineRequests(Head(ls), index)
         \o LinesRequests(Tail(ls), index + Len(LineText(Head(ls))) + 1)

\* the request list upload builds from the fetched end index and the markup
UploadRequests(e, md) == DeleteRequests(e) \o LinesRequests(Split(md, NL), 1)

\* the two callers of upload
Uploaders == {1, 2}

\* the markups of the two uploads
ConcMarkups == {<<>>, <<"a">>, <<"b", "b">>, <<"#", " ", "c", NL, "d">>}

\* upload has been called with md and has not fetched yet
Uploading(md) ==
    [pc |-> "upload", markdown_content |-> md, end_index |-> 0, requests |-> <<>>]

InitConc ==
    /\ pc = "concurrent"
    /\ body \in Bodies
    /\ uploads \in [Uploaders -> {Uploading(md) : md \in ConcMarkups}]
    /\ batches = <<>>
    /\ markdown_content = <<>>
    /\ doc = NoDoc
    /\ end_index = 0
    /\ requests = <<>>
    /\ lines = <<>>
    /\ line_no = 0
    /\ current_index = 0
    /\ content = <<>>
    /\ markdown_parts = <<>>
    /\ elem_no = 0
    /\ markdown = <<>>
    /\ RetryIdle /\ IdIdle /\ GcIdle /\ SetupIdle /\ ClientIdle
    /\ upload_calls = <<>> /\ ImgIdle /\ InlineIdle

\* what a step of an upload leaves alone, besides body, uploads and batches
ConcUnchanged ==
    UNCHANGED <<markdown_content, pc, doc, end_index, requests, lines, line_no,
                current_index, dlVars, retryVars, idVars, gcVars, setupVars,
                clientVars, upload_calls, imgVars, inlineVars>>

\* documents().get() raises HttpError; _handle_http_error raises
ConcFetchFails(p) ==
    /\ uploads[p].pc = "upload"
    /\ uploads' = [uploads EXCEPT ![p].pc = "error"]
    /\ UNCHANGED <<body, batches>>
    /\ ConcUnchanged

\* upload p fetches the document, which has body content, and builds its
\* request list from the end index it read; the list depends on nothing
\* another upload can change
ConcFetch(p) ==
    /\ uploads[p].pc = "upload"
    /\ LET e == EndIndexOf([hasContent |-> TRUE, endIndex |-> Len(body) + 1])
       IN uploads' =
             [uploads EXCEPT
                ![p] = [pc |-> "batch",
                        markdown_content |-> uploads[p].markdown_content,
                        end_index |-> e,
                        requests |-> UploadRequests(e, uploads[p].markdown_content)]]
    /\ UNCHANGED <<body, batches>>
    /\ ConcUnchanged

\* batchUpdate of upload p: the service applies the batch atomically
ConcBatchUpdate(p) ==
    /\ uploads[p].pc = "batch"
    /\ AllValid(body, uploads[p].requests)
    /\ body' = ApplyAll(body, uploads[p].requests)
    /\ batches' = Append(batches, [by |-> p, valid |-> TRUE])
    /\ uploads' = [uploads EXCEPT ![p].pc = "done"]
    /\ ConcUnchanged

\* batchUpdate of upload p: a request is not valid for the body as it is now;
\* the service applies nothing and answers with an error
ConcBatchRejected(p) ==
    /\ uploads[p].pc = "batch"
    /\ ~AllValid(body, uploads[p].requests)
    /\ batches' = Append(batches, [by |-> p, valid |-> FALSE])
    /\ uploads' = [uploads EXCEPT ![p].pc = "error"]
    /\ UNCHANGED body
    /\ ConcUnchanged

\* batchUpdate of upload p raises HttpError before the service has the batch
ConcBatchFails(p) ==
    /\ uploads[p].pc = "batch"
    /\ uploads' = [uploads EXCEPT ![p].pc = "error"]
    /\ UNCHANGED <<body, batches>>
    /\ ConcUnchanged

NextConc ==
    \E p \in Uploaders :
        \/ ConcFetchFails(p)
        \/ ConcFetch(p)
        \/ ConcBatchUpdate(p)
        \/ ConcBatchRejected(p)
        \/ ConcBatchFails(p)

SpecConc == InitConc /\ [][NextConc]_vars

---------------------------------------------------------------------------
(* image_extractor.extract_images *)

HASH_LENGTH == 5

\* the number of hex digits of a digest in the model (64 for SHA-256)
HexLen == 7

\* the last numeric suffix tried in the model (9999 in the code)
MaxSuffix == 3

\* the most data URIs in the markdown file of one run
MaxImages == 2

\* the most runs of extract_images on the same directory
MaxExtractRuns == 2

\* the decoded bytes of the generated images, each with the digits its digest
\* is made of: d1, d2 and d3 agree on the first HASH_LENGTH digits, d1 and d3
\* on one more
ImageData ==
    {[name |-> "d1", head |-> "a", next |-> "0", rest |-> "0"],
     [name |-> "d2", head |-> "a", next |-> "1", rest |-> "0"],
     [name |-> "d3", head |-> "a", next |-> "0", rest |-> "1"],
     [name |-> "d4", head |-> "b", next |-> "0", rest |-> "0"]}

\* hashlib.sha256(data).hexdigest(): distinct data have distinct digests
Sha256Hex(data) ==
    [i \in 1..HexLen |->
        IF i <= HASH_LENGTH THEN data.head
        ELSE IF i = HASH_LENGTH + 1 THEN data.next ELSE data.rest]

ImageMimes == {"image/png", "image/gif"}

\* _ext_for_mime(mime): mimetypes.guess_extension for the generated types
ExtForMime(mime) ==
    IF mime = "image/png" THEN <<".", "p", "n", "g">> ELSE <<".", "g", "i", "f">>

\* a data URI of the markdown file: its type and what its base64 text
\* decodes to; decodes = FALSE: b64decode raises
DataUri(mime, data, decodes) == [mime |-> mime, data |-> data, decodes |-> decodes]

DataUris ==
    {DataUri(mt, d, TRUE) : mt \in ImageMimes, d \in ImageData}
    \cup {DataUri("image/png", CHOOSE d \in ImageData : d.name = "d1", FALSE)}

\* a file of the directory
FileAt(path, data) == [path |-> path, data |-> data, readable |-> TRUE]

\* candidate.exists()
Exists(fs, path) == \E f \in fs : f.path = path

\* candidate.read_bytes()
ReadBytes(fs, path) == (CHOOSE f \in fs : f.path = path).data

\* _rel_img_path of out_dir / f"img-{h}{ext}"
ImgPath(h, ext) == <<"i", "m", "g", "s", "/", "i", "m", "g", "-">> \o h \o ext

\* _rel_img_path of out_dir / f"{base.stem}-{i}{base.suffix}"
SuffixedPath(full_hex, i, ext) == ImgPath(full_hex \o <<"-", ToString(i)>>, ext)

\* the candidate is returned: it does not exist or holds the same bytes
Usable(fs, path, data) == ~Exists(fs, path) \/ ReadBytes(fs, path) = data

\* a variant that returns the first candidate whatever it holds
ChooseOutPathFirstCandidate(fs, mime, data) ==
    Returned(ImgPath(SubSeq(Sha256Hex(data), 1, HASH_LENGTH), ExtForMime(mime)))

\* _choose_out_path(out_dir, mime=mime, data=data, hash_length=HASH_LENGTH)
ChooseOutPath(fs, mime, data) ==
    LET full_hex == Sha256Hex(data)
        ext == ExtForMime(mime)
        first == IF HASH_LENGTH > 1 THEN HASH_LENGTH ELSE 1
        ns == {n \in first..Len(full_hex) :
                  Usable(fs, ImgPath(SubSeq(full_hex, 1, n), ext), data)}
        is == {i \in 2..MaxSuffix : Usable(fs, SuffixedPath(full_hex, i, ext), data)}
    IN IF ns # {}
       THEN Returned(ImgPath(SubSeq(full_hex, 1,
                                    CHOOSE n \in ns : \A k \in ns : n <= k), ext))
       ELSE IF is # {}
       THEN Returned(SuffixedPath(full_hex, CHOOSE i \in is : \A k \in is : i <= k, ext))
       ELSE Raised("RuntimeError")

\* full_hex in replacements
InReplacements(full_hex) == \E r \in replacements : r.full_hex = full_hex

\* replacements[full_hex]
ReplacementOf(full_hex) == (CHOOSE r \in replacements : r.full_hex = full_hex).rel

\* one substitution of the run: the data URI and the path it was replaced by
Exported(uri, rel) == [run |-> run_no, mime |-> uri.mime, data |-> uri.data, rel |-> rel]

InitImg ==
    /\ pc = "extract_images"
    /\ files = {}
    /\ replacements = {}
    /\ pending = <<>>
    /\ exported = <<>>
    /\ run_no = 0
    /\ ConvIdle /\ RetryIdle /\ IdIdle /\ GcIdle /\ SetupIdle /\ ClientIdle
    /\ upload_calls = <<>> /\ ConcIdle /\ InlineIdle

\* what a step of extract_images leaves alone
ImgUnchanged ==
    UNCHANGED <<convVars, retryVars, idVars, gcVars, setupVars, clientVars,
                upload_calls, concVars, inlineVars>>

\* extract_images(md_path): the file is read, imgs/ is created if missing,
\* replacements starts empty; pending holds the data URIs subn will visit
ExtractStart ==
    /\ pc = "extract_images"
    /\ run_no < MaxExtractRuns
    /\ run_no' = run_no + 1
    /\ pending' \in SeqsUpTo(DataUris, MaxImages)
    /\ replacements' = {}
    /\ pc' = "repl"
    /\ UNCHANGED <<files, exported>>
    /\ ImgUnchanged

InRepl == pc = "repl" /\ pending # <<>>

\* repl: base64.b64decode(b64, validate=True) raises; extract_images ends
\* with the files written so far in place and the markdown not rewritten
ReplDecodeFails ==
    /\ InRepl
    /\ ~Head(pending).decodes
    /\ pending' = <<>>
    /\ pc' = "extract_images"
    /\ UNCHANGED <<files, replacements, exported, run_no>>
    /\ ImgUnchanged

\* repl: if full_hex in replacements: return replacements[full_hex]
ReplKnown ==
    /\ InRepl
    /\ Head(pending).decodes
    /\ InReplacements(Sha256Hex(Head(pending).data))
    /\ exported' =
          Append(exported,
                 Exported(Head(pending), ReplacementOf(Sha256Hex(Head(pending).data))))
    /\ pending' = Tail(pending)
    /\ UNCHANGED <<pc, files, replacements, run_no>>
    /\ ImgUnchanged

\* repl: a new digest; the path is chosen, the bytes are written when the
\* path does not exist, and the path is remembered for the digest
\* (_choose_out_path raises only when every candidate holds other bytes)
ReplNew ==
    /\ InRepl
    /\ Head(pending).decodes
    /\ ~InReplacements(Sha256Hex(Head(pending).data))
    /\ LET uri == Head(pending)
           out_path == ChooseOutPath(files, uri.mime, uri.data)
       IN /\ out_path.kind = "returned"
          /\ files' = IF ~Exists(files, out_path.value)
                      THEN files \cup {FileAt(out_path.value, uri.data)}
                      ELSE files
          /\ replacements' =
                replacements \cup
                    {[full_hex |-> Sha256Hex(uri.data), rel |-> out_path.value]}
          /\ exported' = Append(exported, Exported(uri, out_path.value))
    /\ pending' = Tail(pending)
    /\ UNCHANGED <<pc, run_no>>
    /\ ImgUnchanged

\* subn is through: the markdown is rewritten and extract_images returns
ExtractReturn ==
    /\ pc = "repl"
    /\ pending = <<>>
    /\ pc' = "extract_images"
    /\ UNCHANGED <<files, replacements, pending, exported, run_no>>
    /\ ImgUnchanged

NextImg ==
    \/ ExtractStart
    \/ ReplDecodeFails
    \/ ReplKnown
    \/ ReplNew
    \/ ExtractReturn

SpecImg == InitImg /\ [][NextImg]_vars

---------------------------------------------------------------------------
(* image_extractor.inline_images *)

\* the most lines of a generated markdown file
MaxMdLines == 3

Digits == {"0", "1", "2", "3", "4", "5", "6", "7", "8", "9"}

\* the length of the run of digits of s that starts at i
RECURSIVE DigitRunLen(_, _)
DigitRunLen(s, i) ==
    IF i > Len(s) \/ s[i] \notin Digits THEN 0 ELSE 1 + DigitRunLen(s, i + 1)

\* the length of the run of whitespace of s that starts at i
RECURSIVE SpaceRunLen(_, _)
SpaceRunLen(s, i) ==
    IF i > Len(s) \/ s[i] \notin Whitespace THEN 0 ELSE 1 + SpaceRunLen(s, i + 1)

ImagePrefix == <<"[", "i", "m", "a", "g", "e">>

\* IMAGE_REF_RE on one line: ^\[(?P<label>image\d+)\]:\s*<(?P<path>[^>]+)>$
ImageRefMatch(line) ==
    LET nd == DigitRunLen(line, Len(ImagePrefix) + 1)
        close == Len(ImagePrefix) + 1 + nd
        open == close + 2 + SpaceRunLen(line, close + 2)
    IN IF /\ MatchAt(line, ImagePrefix, 1)
          /\ nd >= 1
          /\ MatchAt(line, <<"]", ":">>, close)
          /\ open <= Len(line) - 2
          /\ line[open] = "<"
          /\ line[Len(line)] = ">"
          /\ \A k \in (open + 1)..(Len(line) - 1) : line[k] # ">"
       THEN [matched |-> TRUE,
             label |-> SubSeq(line, 2, close - 1),
             path |-> SubSeq(line, open + 1, Len(line) - 1)]
       ELSE NoMatch

DigitValue(c) ==
    CASE c = "0" -> 0 [] c = "1" -> 1 [] c = "2" -> 2 [] c = "3" -> 3
      [] c = "4" -> 4 [] c = "5" -> 5 [] c = "6" -> 6 [] c = "7" -> 7
      [] c = "8" -> 8 [] OTHER -> 9

\* int(ds) of a sequence of digits
RECURSIVE IntOf(_)
IntOf(ds) ==
    IF ds = <<>> THEN 0
    ELSE 10 * IntOf(SubSeq(ds, 1, Len(ds) - 1)) + DigitValue(ds[Len(ds)])

\* label_sort_key(label): the first run of digits of the label, as a number
LabelSortKey(label) ==
    LET starts == {i \in 1..Len(label) : label[i] \in Digits}
    IN IF starts = {} THEN 0
       ELSE LET i == CHOOSE i \in starts : \A k \in starts : i <= k
            IN IntOf(SubSeq(label, i, i + DigitRunLen(label, i) - 1))

\* the lines of the text that IMAGE_REF_RE matches and whose file exists, in
\* the order of the text: image_refs before it is sorted
ImageRefs(text, fs) ==
    LET found == SelectSeq(Split(text, NL),
                           LAMBDA l : /\ ImageRefMatch(l).matched
                                      /\ Exists(fs, ImageRefMatch(l).path))
    IN [i \in 1..Len(found) |->
          [label |-> ImageRefMatch(found[i]).label,
           original_line |-> found[i],
           img_path |-> ImageRefMatch(found[i]).path]]

\* img_path.read_bytes() returns
Readable(fs, path) == (CHOOSE f \in fs : f.path = path).readable

\* mimetypes.guess_type(str(img_path)), with the fallback of mime_map
MimeOfPath(path) ==
    IF MatchAt(path, <<".", "g", "i", "f">>, Len(path) - 3) THEN "image/gif" ELSE "image/png"

\* base64.b64encode(img_data).decode("ascii"), as one piece of text
B64Encode(data) == <<"b64:" \o data.name>>

\* f"[{label}]: <data:{mime_type};base64,{b64_data}>"
DataUriRef(label, mime_type, b64_data) ==
    <<"[">> \o label \o <<"]", ":", " ", "<", "data:", mime_type, ";base64,">>
        \o b64_data \o <<">">>

\* data_uri_refs after the loop over image_refs, which sort() has ordered by
\* label, entries of one label staying in the order of the text: for each
\* label the line of its last reference that could be read
DataUriRefs(refs, fs) ==
    LET ok == SelectSeq(refs, LAMBDA r : Readable(fs, r.img_path))
        labels == {ok[i].label : i \in 1..Len(ok)}
        lastOf(label) ==
            ok[CHOOSE i \in 1..Len(ok) :
                   /\ ok[i].label = label
                   /\ \A k \in 1..Len(ok) : ok[k].label = label => k <= i]
    IN {[label |-> label,
         ref |-> DataUriRef(label, MimeOfPath(lastOf(label).img_path),
                            B64Encode(ReadBytes(fs, lastOf(label).img_path)))] :
           label \in labels}

\* re.sub(re.escape(original_line) + r"\n?", "", s)
RECURSIVE RemoveAll(_, _)
RemoveAll(s, original_line) ==
    IF s = <<>> THEN <<>>
    ELSE IF MatchAt(s, original_line, 1)
    THEN LET rest == SubSeq(s, Len(original_line) + 1, Len(s))
         IN RemoveAll(IF rest # <<>> /\ Head(rest) = NL THEN Tail(rest) ELSE rest,
                      original_line)
    ELSE <<Head(s)>> \o RemoveAll(Tail(s), original_line)

\* for _, original_line, _ in image_refs: new_text = re.sub(...)
RECURSIVE RemoveRefs(_, _)
RemoveRefs(s, refs) ==
    IF refs = <<>> THEN s
    ELSE RemoveRefs(RemoveAll(s, Head(refs).original_line), Tail(refs))

\* sorted(data_uri_refs.keys(), key=label_sort_key), for labels of distinct keys
SortedByKey(entries) ==
    LET RECURSIVE Sorted(_)
        Sorted(es) ==
            IF es = {} THEN <<>>
            ELSE LET e == CHOOSE e \in es :
                              \A o \in es :
                                  LabelSortKey(e.label) <= LabelSortKey(o.label)
                 IN <<e>> \o Sorted(es \ {e})
    IN Sorted(entries)

\* new_text: the reference lines removed, a newline added to text that lacks
\* it, and the data URI lines appended in the order of their keys
NewText(text, fs) ==
    LET removed == RemoveRefs(text, ImageRefs(text, fs))
        terminated == IF removed # <<>> /\ removed[Len(removed)] # NL
                      THEN removed \o <<NL>> ELSE removed
        sorted == SortedByKey(DataUriRefs(ImageRefs(text, fs), fs))
    IN terminated
       \o ConcatAll([i \in 1..Len(sorted) |-> sorted[i].ref \o <<NL>>])

\* the files of the directory of the generated markdown files
PathA == <<"a", ".", "p", "n", "g">>

PathB == <<"b", ".", "p", "n", "g">>

PathC == <<"c", ".", "g", "i", "f">>

\* a file that exists and cannot be read
Unreadable(path) ==
    [path |-> path, data |-> CHOOSE d \in ImageData : d.name = "d1",
     readable |-> FALSE]

\* the states of one file: missing, readable, unreadable
FileStates(path, data) == {{}, {FileAt(path, data)}, {Unreadable(path)}}

InlineFileSystems ==
    {a \cup b \cup c :
        a \in FileStates(PathA, CHOOSE d \in ImageData : d.name = "d1"),
        b \in FileStates(PathB, CHOOSE d \in ImageData : d.name = "d2"),
        c \in FileStates(PathC, CHOOSE d \in ImageData : d.name = "d4")}

\* f"[{label}]: <{path}>"
RefLine(digits, path) ==
    ImagePrefix \o digits \o <<"]", ":", " ", "<">> \o path \o <<">">>

\* the lines of the generated markdown files
MdLines ==
    {RefLine(<<"1">>, PathA), RefLine(<<"2">>, PathB), RefLine(<<"1", "0">>, PathC),
     RefLine(<<"1">>, PathB),
     <<"t", "e", "x", "t">>,
     <<>>,
     DataUriRef(<<"i", "m", "a", "g", "e", "2">>, "image/png", <<"b64:d3">>)}

\* the generated markdown files: lines joined by newlines, with or without a
\* newline at the end
MdTexts ==
    {Join(<<NL>>, ls) \o end :
        ls \in SeqsUpTo(MdLines, MaxMdLines), end \in {<<>>, <<NL>>}}

InitInline ==
    /\ pc = "inline_images"
    /\ md_text \in MdTexts
    /\ md_before = md_text
    /\ rewrite_markdown \in BOOLEAN
    /\ inline_result = NoResult
    /\ files \in InlineFileSystems
    /\ replacements = {}
    /\ pending = <<>>
    /\ exported = <<>>
    /\ run_no = 0
    /\ ConvIdle /\ RetryIdle /\ IdIdle /\ GcIdle /\ SetupIdle /\ ClientIdle
    /\ upload_calls = <<>> /\ ConcIdle

\* what inline_images leaves alone
InlineUnchanged ==
    UNCHANGED <<convVars, retryVars, idVars, gcVars, setupVars, clientVars,
                upload_calls, concVars, imgVars, md_before, rewrite_markdown>>

\* if not image_refs: return 1
InlineNoRefs ==
    /\ pc = "inline_images"
    /\ ImageRefs(md_text, files) = <<>>
    /\ inline_result' = Returned(1)
    /\ pc' = "inlined"
    /\ UNCHANGED md_text
    /\ InlineUnchanged

\* if not data_uri_refs: return 1
InlineNoneConverted ==
    /\ pc = "inline_images"
    /\ ImageRefs(md_text, files) # <<>>
    /\ DataUriRefs(ImageRefs(md_text, files), files) = {}
    /\ inline_result' = Returned(1)
    /\ pc' = "inlined"
    /\ UNCHANGED md_text
    /\ InlineUnchanged

\* the file is rewritten with new_text (when rewrite_markdown); return 0
InlineRewrites ==
    /\ pc = "inline_images"
    /\ DataUriRefs(ImageRefs(md_text, files), files) # {}
    /\ md_text' = IF rewrite_markdown THEN NewText(md_text, files) ELSE md_text
    /\ inline_result' = Returned(0)
    /\ pc' = "inlined"
    /\ InlineUnchanged

NextInline ==
    \/ InlineNoRefs
    \/ InlineNoneConverted
    \/ InlineRewrites

SpecInline == InitInline /\ [][NextInline]_vars

---------------------------------------------------------------------------
(* Properties of upload's request list *)

IsInsert(r) == r.op = "insertText"
IsDelete(r) == r.op = "deleteContentRange"
IsStyle(r) == r.op = "updateParagraphStyle"

\* total length of the texts the first n requests of rs insert
RECURSIVE InsertedLen(_, _)
InsertedLen(rs, n) ==
    IF n = 0 THEN 0
    ELSE InsertedLen(rs, n - 1) + (IF IsInsert(rs[n]) THEN Len(rs[n].text) ELSE 0)

\* the texts of ts, each followed by a newline, concatenated
RECURSIVE JoinTerminated(_)
JoinTerminated(ts) ==
    IF ts = <<>> THEN <<>> ELSE Head(ts) \o <<NL>> \o JoinTerminated(Tail(ts))

\* the loop is processing a line in this step
LineStep == InLoop /\ line_no' = line_no + 1

\* the requests this step appends
NewRequests == SubSeq(requests', Len(requests) + 1, Len(requests'))

\* C1: the cursor starts at 1 and, once the loop runs, every InsertText sits
\* at 1 + the total length of the texts inserted before it, and the cursor
\* equals 1 + the total length of all inserted texts.
C1_CursorBookkeeping ==
    line_no >= 1 =>
        /\ \A i \in 1..Len(requests) :
              IsInsert(requests[i]) =>
                  requests[i].index = 1 + InsertedLen(requests, i - 1)
        /\ current_index = 1 + InsertedLen(requests, Len(requests))

\* C1 witness: an upload that finished after several insertions
C1_Witness ==
    /\ pc = "done"
    /\ Len(requests) >= 4
    /\ current_index >= 4

\* what upload turns markup line l into: trailing whitespace removed, and for
\* a line that begins with '#' the heading text
UploadedLine(l) ==
    IF StartsWith(RStrip(l), "#") THEN HeadingText(RStrip(l)) ELSE RStrip(l)

C3_DeleteGuard ==
    line_no >= 1 =>
        /\ (\E i \in 1..Len(requests) : IsDelete(requests[i])) <=> end_index > 1
        /\ \A i \in 1..Len(requests) :
              IsDelete(requests[i]) =>
                  /\ i = 1
                  /\ requests[i].startIndex = 1
                  /\ requests[i].endIndex = end_index - 1
                  /\ (pc = "lines" /\ doc.hasContent) =>
                        ~(requests[i].startIndex <= Len(body)
                          /\ Len(body) < requests[i].endIndex)

\* C3 witness: a body with old text; the deletion is first, then insertions
C3_Witness ==
    /\ pc = "lines"
    /\ end_index = 3
    /\ Len(requests) >= 2
    /\ IsDelete(requests[1])
    /\ IsInsert(requests[2])

\* C4 as stated: for empty markup (no line, or one empty line) the request
\* list holds no InsertText.
C4_EmptyMarkupNoInsert ==
    (AtBatch /\ (lines = <<>> \/ lines = << <<>> >>)) =>
        \A i \in 1..Len(requests) : ~IsInsert(requests[i])

HeadingNames ==
    <<"HEADING_1", "HEADING_2", "HEADING_3", "HEADING_4", "HEADING_5", "HEADING_6">>

\* C5: a line that begins with n >= 1 '#' gets a SetParagraphStyle named
\* HEADING_min(n, 6), and no request ever carries another style name.
C5_HeadingClamp ==
    /\ [](\A i \in 1..Len(requests) :
            IsStyle(requests[i]) =>
                \E k \in 1..6 : requests[i].namedStyleType = HeadingNames[k])
    /\ [][(LineStep /\ StartsWith(lines[line_no], "#")) =>
            LET n == LeadingCount(lines[line_no], {"#"})
            IN \E i \in 1..Len(NewRequests) :
                  /\ IsStyle(NewRequests[i])
                  /\ NewRequests[i].namedStyleType = HeadingNames[Min(n, 6)]]_vars

\* C5 witness: a line of seven '#' was given HEADING_6
C5_Witness ==
    /\ line_no >= 2
    /\ LeadingCount(lines[1], {"#"}) >= 7
    /\ \E i \in 1..Len(requests) :
          IsStyle(requests[i]) /\ requests[i].namedStyleType = "HEADING_6"

\* the heading text as C6 has it: the leading '#' run and one following space
\* removed
ClaimedHeadingText(l) ==
    LET t == LStrip(l, {"#"}) IN IF StartsWith(t, " ") THEN Tail(t) ELSE t

\* C6 as stated: the text inserted for a heading line is the line without its
\* leading '#' run and one following space, then a newline (compared up to
\* surrounding whitespace, which upload trims).
C6_HeadingTextKept ==
    [][(LineStep /\ StartsWith(lines[line_no], "#")) =>
          \E i \in 1..Len(NewRequests) :
              /\ IsInsert(NewRequests[i])
              /\ NewRequests[i].text =
                    Strip(ClaimedHeadingText(lines[line_no])) \o <<NL>>]_vars

\* C7: every SetParagraphStyle directly follows an InsertText, starts at that
\* InsertText's index, ends no later than that index plus the inserted length,
\* and lies within the characters inserted before it.
C7_StyleWithinInserted ==
    \A i \in 1..Len(requests) :
        IsStyle(requests[i]) =>
            /\ i > 1
            /\ IsInsert(requests[i - 1])
            /\ requests[i].startIndex = requests[i - 1].index
            /\ requests[i].endIndex
                  <= requests[i - 1].index + Len(requests[i - 1].text)
            /\ 1 <= requests[i].startIndex
            /\ requests[i].endIndex <= 1 + InsertedLen(requests, i - 1)

\* C7 witness: a styled heading with text, after an earlier insertion
C7_Witness ==
    \E i \in 3..Len(requests) :
        IsStyle(requests[i]) /\ requests[i].endIndex > requests[i].startIndex

\* a line that is neither blank nor begins with '#'
PlainLine(l) == RStrip(l) # <<>> /\ ~StartsWith(l, "#")

\* C8 as stated: a non-blank line that does not begin with '#' yields exactly
\* one InsertText of the line verbatim plus a newline, no style, and advances
\* the cursor by len(line) + 1.
C8_Original ==
    [][(LineStep /\ PlainLine(lines[line_no])) =>
          /\ requests' =
                Append(requests,
                       InsertText(current_index, lines[line_no] \o <<NL>>))
          /\ current_index' = current_index + Len(lines[line_no]) + 1]_vars

\* C8 amended: as C8, with the line's trailing whitespace removed before it is
\* inserted and measured.
C8_Amended ==
    [][(LineStep /\ PlainLine(lines[line_no])) =>
          /\ requests' =
                Append(requests,
                       InsertText(current_index,
                                  RStrip(lines[line_no]) \o <<NL>>))
          /\ current_index' = current_index + Len(RStrip(lines[line_no])) + 1]_vars

\* C8 witness: a line with an emphasis marker and trailing whitespace was
\* inserted without the whitespace, the marker kept
C8_Witness ==
    /\ line_no = 2
    /\ lines[1] = <<"*", "a", " ">>
    /\ requests[Len(requests)] = InsertText(1, <<"*", "a", NL>>)

---------------------------------------------------------------------------
(* Properties of download and of the round trip *)

\* s without the occurrences of character c
RECURSIVE RemoveChar(_, _)
RemoveChar(s, c) ==
    IF s = <<>> THEN <<>>
    ELSE (IF Head(s) = c THEN <<>> ELSE <<Head(s)>>) \o RemoveChar(Tail(s), c)

\* the supported subset: NORMAL_TEXT / HEADING_1..6 paragraphs whose text is
\* not empty or whitespace only, made of text runs without underline
Supported(d) ==
    \A i \in 1..Len(d) :
        /\ d[i].kind = "paragraph"
        /\ d[i].namedStyleType \in
              {"NORMAL_TEXT"} \cup {HeadingNames[k] : k \in 1..6}
        /\ \A j \in 1..Len(d[i].elements) :
              /\ d[i].elements[j].kind = "textRun"
              /\ ~d[i].elements[j].textStyle.underline
        /\ Strip(RawText(d[i])) # <<>>

\* the paragraphs the request list rs creates, in order: one per InsertText,
\* styled by the SetParagraphStyle that follows it (NORMAL_TEXT without one),
\* its text taken without emphasis markers and surrounding whitespace; the
\* unstyled blank lines are left out
RECURSIVE UploadedParagraphs(_)
UploadedParagraphs(rs) ==
    IF rs = <<>> THEN <<>>
    ELSE IF ~IsInsert(Head(rs)) THEN UploadedParagraphs(Tail(rs))
    ELSE LET styled == Len(rs) >= 2 /\ IsStyle(rs[2])
             text == Strip(RemoveChar(Head(rs).text, "*"))
         IN (IF ~styled /\ text = <<>> THEN <<>>
             ELSE <<[style |-> IF styled THEN rs[2].namedStyleType
                               ELSE "NORMAL_TEXT",
                     text |-> text]>>)
            \o UploadedParagraphs(Tail(rs))

\* the paragraphs of document d: named style and raw text, trimmed
OriginalParagraphs(d) ==
    [i \in 1..Len(d) |->
        [style |-> d[i].namedStyleType, text |-> Strip(RawText(d[i]))]]

\* C9 as stated: for a document of the supported subset, uploading download's
\* markup creates one paragraph per original paragraph, in the original order,
\* with the original paragraph style and the original raw text (emphasis
\* markers, surrounding whitespace and blank separator lines not counted).
C9_RoundTrip ==
    (AtBatch /\ Supported(content)) =>
        UploadedParagraphs(requests) = OriginalParagraphs(content)

\* a paragraph whose text runs' contents are empty or whitespace only
WhitespaceOnly(elem) ==
    /\ elem.kind = "paragraph"
    /\ \A j \in 1..Len(elem.elements) :
          elem.elements[j].kind = "textRun" =>
              Strip(elem.elements[j].content) = <<>>

\* C10 as stated: download emits nothing for a paragraph whose text runs'
\* contents are empty or whitespace only, whatever its style and run flags.
C10_BlankParagraphSkipped ==
    [][(AtElement /\ WhitespaceOnly(content[elem_no]) /\ elem_no' = elem_no + 1)
          => markdown_parts' = markdown_parts]_vars

---------------------------------------------------------------------------
(* Properties of download's markup *)

\* process_element handles a paragraph, or a table, in this step
ParagraphStep ==
    AtElement /\ content[elem_no].kind = "paragraph" /\ elem_no' = elem_no + 1

TableStep ==
    AtElement /\ content[elem_no].kind = "table" /\ elem_no' = elem_no + 1

\* the strings this step appends to markdown_parts
Appended ==
    SubSeq(markdown_parts', Len(markdown_parts) + 1, Len(markdown_parts'))

EndsWith(s, t) ==
    Len(t) <= Len(s) /\ SubSeq(s, Len(s) - Len(t) + 1, Len(s)) = t

\* a text run as C11 words it: the raw text between the opening markers
\* (underline tag, italic, bold) and the closing markers (bold, italic, tag)
ClaimedRun(run) ==
    LET b == IF run.textStyle.bold THEN <<"*", "*">> ELSE <<>>
        i == IF run.textStyle.italic THEN <<"*">> ELSE <<>>
        open == IF run.textStyle.underline THEN <<"<", "u", ">">> ELSE <<>>
        close == IF run.textStyle.underline THEN <<"<", "/", "u", ">">> ELSE <<>>
    IN open \o i \o b \o run.content \o b \o i \o close

\* the wrapped text runs among the elements es, concatenated in order
RECURSIVE ClaimedRunsText(_)
ClaimedRunsText(es) ==
    IF es = <<>> THEN <<>>
    ELSE (IF Head(es).kind = "textRun" THEN ClaimedRun(Head(es)) ELSE <<>>)
         \o ClaimedRunsText(Tail(es))

\* C11: each text run's text alone is wrapped per flag in the fixed nesting
\* bold '**' innermost, then italic '*', then underline '<u>..</u>' outermost,
\* a run without flags contributes its raw text, and the runs are concatenated
\* in document order: the line download appends for a paragraph ends with that
\* concatenation, trimmed, and a newline.
C11_RunWrapping ==
    [][ParagraphStep =>
          LET T == Strip(ClaimedRunsText(content[elem_no].elements))
          IN T # <<>> =>
                /\ Len(Appended) = 1
                /\ EndsWith(Appended[1], T \o <<NL>>)]_vars

\* a bold, italic and underlined run followed by a run without flags
C11_Witness ==
    /\ pc = "downloaded"
    /\ content = <<Paragraph("NORMAL_TEXT",
                     <<TextRun(<<"a">>, [bold |-> TRUE, italic |-> TRUE,
                                         underline |-> TRUE]),
                       TextRun(<<"a">>, Plain)>>)>>
    /\ markdown = <<"<", "u", ">", "*", "*", "*", "a", "*", "*", "*",
                    "<", "/", "u", ">", "a", NL>>

\* the line C12 words for a paragraph of named style ns and trimmed text T
ClaimedLine(ns, T) ==
    IF \E k \in 1..6 : ns = HeadingNames[k]
    THEN LET k == CHOOSE k \in 1..6 : ns = HeadingNames[k]
         IN [j \in 1..k |-> "#"] \o <<" ">> \o T \o <<NL>>
    ELSE T \o <<NL>>

\* C12: a paragraph whose assembled, trimmed text T is not empty is rendered
\* as k '#', one space, T and a newline when its named style is HEADING_k
\* (1 <= k <= 6), and as T and a newline for NORMAL_TEXT, a missing style or
\* any other style name.
C12_ParagraphLine ==
    [][(ParagraphStep /\ TextContent(content[elem_no]) # <<>>) =>
          Appended = <<ClaimedLine(content[elem_no].namedStyleType,
                                   TextContent(content[elem_no]))>>]_vars

\* a HEADING_2 paragraph with a single bold run gives "## **a**" and a newline
C12_Witness ==
    /\ pc = "downloaded"
    /\ content = <<Paragraph("HEADING_2", <<TextRun(<<"a">>, Bold)>>)>>
    /\ markdown = <<"#", "#", " ", "*", "*", "a", "*", "*", NL>>

\* the contents of all text runs of the paragraphs of a cell, in order
RECURSIVE ClaimedCellRuns(_)
ClaimedCellRuns(elems) ==
    IF elems = <<>> THEN <<>>
    ELSE (IF Head(elems).kind = "paragraph"
          THEN LET runs == SelectRuns(Head(elems).elements)
               IN [i \in 1..Len(runs) |-> runs[i].content]
          ELSE <<>>)
         \o ClaimedCellRuns(Tail(elems))

\* a cell's text as C13 words it: the run contents space-joined, trimmed
ClaimedCellText(cell) == Strip(Join(<<" ">>, ClaimedCellRuns(cell.content)))

\* a pipe-delimited row: "|", then each cell between a space and " |"
RECURSIVE ClaimedCells(_)
ClaimedCells(cells) ==
    IF cells = <<>> THEN <<>>
    ELSE <<" ">> \o Head(cells) \o <<" ", "|">> \o ClaimedCells(Tail(cells))

ClaimedRow(cells) == <<"|">> \o ClaimedCells(cells) \o <<NL>>

ClaimedRowOf(row) ==
    ClaimedRow([i \in 1..Len(row.tableCells) |->
                   ClaimedCellText(row.tableCells[i])])

ClaimedSeparator(row) ==
    ClaimedRow([i \in 1..Len(row.tableCells) |-> <<"-", "-", "-">>])

HasCells(row) == row.tableCells # <<>>

\* C13 as stated: for every table with at least one row download emits row 0
\* as a header row, a separator row of as many '---' cells, every remaining
\* row in order and one blank line; a table without rows emits nothing.
C13_Original ==
    [][TableStep =>
          LET rows == content[elem_no].tableRows
          IN IF rows = <<>> THEN Appended = <<>>
             ELSE Appended =
                    <<ClaimedRowOf(rows[1]), ClaimedSeparator(rows[1])>>
                    \o [i \in 1..(Len(rows) - 1) |-> ClaimedRowOf(rows[i + 1])]
                    \o << <<NL>> >>]_vars

\* C13 amended: for every table whose row 0 has at least one cell download
\* emits row 0 as a header row, a separator row of as many '---' cells, every
\* remaining row that has at least one cell, in order, and one blank line,
\* each cell's text being the space-joined contents of the text runs of the
\* cell's paragraphs, trimmed; a table without rows, or whose row 0 has no
\* cells, emits nothing.
C13_Amended ==
    [][TableStep =>
          LET rows == content[elem_no].tableRows
              data == SelectSeq(Tail(rows), HasCells)
          IN IF rows = <<>> \/ ~HasCells(rows[1]) THEN Appended = <<>>
             ELSE Appended =
                    <<ClaimedRowOf(rows[1]), ClaimedSeparator(rows[1])>>
                    \o [i \in 1..Len(data) |-> ClaimedRowOf(data[i])]
                    \o << <<NL>> >>]_vars

\* a table of a two-cell header row and a data row: header, separator, the
\* data row and a blank line are emitted
C13_Witness ==
    /\ pc = "downloaded"
    /\ Len(content) = 1
    /\ content[1].kind = "table"
    /\ Len(content[1].tableRows) = 2
    /\ Len(content[1].tableRows[1].tableCells) = 2
    /\ Len(content[1].tableRows[2].tableCells) = 1
    /\ markdown = <<"|", " ", "a", " ", "|", " ", "a", NL, " ", "a", " ", "|", NL,
                    "|", " ", "-", "-", "-", " ", "|", " ", "-", "-", "-", " ",
                    "|", NL,
                    "|", " ", "a", " ", "|", NL, NL>>

---------------------------------------------------------------------------
(* Properties of _execute_with_retry *)

RetryEnded == pc \in {"returned", "raised"}

\* the first n calls all failed with a retryable HttpError
AllRetryable(n) == \A i \in 1..n : Retryable(outcomes[i])

\* C14: when every attempt fails with a retryable status the call is made
\* exactly MAX_RETRIES (3) times, exactly MAX_RETRIES - 1 sleeps happen (one
\* after each attempt but the last), and the HttpError is raised; there are
\* never more than MAX_RETRIES attempts.
C14_RetriesExhausted ==
    /\ Len(outcomes) <= MAX_RETRIES
    /\ Len(sleeps) <= Len(outcomes)
    /\ (RetryEnded /\ AllRetryable(Len(outcomes))) =>
          /\ Len(outcomes) = MAX_RETRIES
          /\ Len(sleeps) = MAX_RETRIES - 1
          /\ retry_result = Raised(outcomes[MAX_RETRIES])

\* three retryable failures: three calls, sleeps of 1 and 2 seconds, raised
C14_Witness ==
    /\ pc = "raised"
    /\ Len(outcomes) = 3
    /\ AllRetryable(3)
    /\ sleeps = <<1, 2>>

\* a call that failed with an error that is not retried
NotRetried(e) ==
    \/ e.kind = "Exception"
    \/ e.kind = "HttpError" /\ ~Retryable(e)

\* C15: an HttpError whose status is not 429, 500, 502, 503 or 504 (or that
\* has no response) and any other exception is raised by the attempt it
\* occurs in: no sleep follows it and no further attempt is made, so when the
\* first attempt fails this way there is exactly one attempt and no sleep.
C15_NoRetry ==
    \A i \in 1..Len(outcomes) :
        NotRetried(outcomes[i]) =>
            /\ i = Len(outcomes)
            /\ pc = "raised"
            /\ retry_result = Raised(outcomes[i])
            /\ Len(sleeps) = i - 1

\* an HttpError without a response on the first attempt: raised at once
C15_Witness ==
    /\ pc = "raised"
    /\ outcomes = <<HttpError(NoResp)>>
    /\ sleeps = <<>>
    /\ retry_result = Raised(HttpError(NoResp))

\* a success after j retryable failures returns that attempt's result after
\* exactly j sleeps, and no attempt follows a success
SuccessIsReturned ==
    /\ \A i \in 1..Len(outcomes) :
          outcomes[i].kind = "value" =>
              /\ i = Len(outcomes)
              /\ i <= MAX_RETRIES
              /\ AllRetryable(i - 1)
              /\ Len(sleeps) = i - 1
              /\ pc = "returned"
              /\ retry_result = Returned(outcomes[i].value)
    /\ pc = "returned" =>
          /\ outcomes # <<>>
          /\ outcomes[Len(outcomes)].kind = "value"
    /\ RetryEnded => retry_result.kind = IF pc = "returned" THEN "returned"
                                         ELSE "raised"

\* C16: when an attempt succeeds after j < MAX_RETRIES retryable failures,
\* that attempt's result is returned, no attempt follows it, and exactly j
\* sleeps happened; every execution ends, by returning the result of a
\* successful attempt or by raising.
C16_SuccessAfterRetries == []SuccessIsReturned /\ <>RetryEnded

\* two retryable failures, then a success whose value is returned
C16_Witness ==
    /\ pc = "returned"
    /\ Len(outcomes) = 3
    /\ AllRetryable(2)
    /\ sleeps = <<1, 2>>
    /\ retry_result = Returned("document")

---------------------------------------------------------------------------
(* Properties of extract_document_id *)

\* the id segment after the first occurrence of marker that an id follows
RECURSIVE IdAfter(_, _)
IdAfter(s, marker) ==
    IF Len(s) < Len(marker) THEN <<>>
    ELSE IF SubSeq(s, 1, Len(marker)) = marker
            /\ Len(s) > Len(marker) /\ s[Len(marker) + 1] \in IdChar
    THEN LET rest == SubSeq(s, Len(marker) + 1, Len(s))
         IN SubSeq(rest, 1, IdRunLen(rest, 1))
    ELSE IdAfter(Tail(s), marker)

\* only letters, digits, dashes and underscores, at least 10 of them
ClaimedBareId(s) ==
    Len(s) >= MinIdLen /\ \A i \in 1..Len(s) : s[i] \in IdChar

\* C17 as stated: the id segment is returned for an input that contains
\* /document/d/{id} or id={id}, a bare input of at least 10 letters, digits,
\* dashes and underscores is returned unchanged, and every other input
\* raises ValueError.
C17_ExtractDocumentId ==
    pc = "extracted" =>
        document_id =
            IF IdAfter(url_or_id, DocumentPattern) # <<>>
            THEN Returned(IdAfter(url_or_id, DocumentPattern))
            ELSE IF IdAfter(url_or_id, IdPattern) # <<>>
            THEN Returned(IdAfter(url_or_id, IdPattern))
            ELSE IF ClaimedBareId(url_or_id) THEN Returned(url_or_id)
            ELSE Raised("ValueError")

---------------------------------------------------------------------------
(* Properties of gcloud_run and gcloud_exec *)

\* the call has ended and the subprocess had failed
GcFailed == pc = "gcloud_done" /\ gc_call.behaviour.error \in SubprocessErrors

\* C18: when the subprocess fails (binary missing, non-zero exit, timeout),
\* with raise_exception=True a GCloudException is raised that carries the
\* operation, the command prefixed with "gcloud" and the original error, and
\* nothing is echoed; with raise_exception=False exactly one message is
\* echoed to stderr and None (gcloud_run) or False (gcloud_exec) is returned.
C18_RaiseOrEcho ==
    GcFailed =>
        IF gc_call.raise_exception
        THEN /\ gc_result.kind = "raised"
             /\ gc_result.exc.kind = "GCloudException"
             /\ gc_result.exc.operation = gc_call.operation
             /\ gc_result.exc.command = <<"gcloud">> \o gc_call.command
             /\ gc_result.exc.original_error = gc_call.behaviour.error
             /\ stderr = <<>>
        ELSE /\ Len(stderr) = 1
             /\ gc_result.kind = "returned"
             /\ gc_result.value =
                   IF gc_call.fn = "gcloud_run" THEN None ELSE PyFalse

\* a timeout of gcloud_exec with raise_exception=False: one message, False
C18_Witness ==
    /\ GcFailed
    /\ gc_call.fn = "gcloud_exec"
    /\ gc_call.behaviour.error = "TimeoutExpired"
    /\ ~gc_call.raise_exception
    /\ Len(stderr) = 1
    /\ gc_result = Returned(PyFalse)

\* text t holds the pieces ps one after the other
ContainsPieces(t, ps) ==
    \E i \in 1..(Len(t) - Len(ps) + 1) : SubSeq(t, i, i + Len(ps) - 1) = ps

\* what the user sees of a failure: the exception's text, or the echoed text
VisibleText ==
    IF gc_result.kind = "raised" THEN gc_result.exc.text ELSE stderr[1]

\* C19 as stated: every failure of a gcloud command the user sees, raised or
\* echoed, of each kind, includes the attempted operation and the command
\* that failed.
C19_OperationAndCommand ==
    GcFailed =>
        /\ ContainsPieces(VisibleText, <<gc_call.operation>>)
        /\ ContainsPieces(VisibleText, JoinCommand(<<"gcloud">> \o gc_call.command))

---------------------------------------------------------------------------
(* Properties of setup *)

\* the steps setup cannot go on without
RequiredSteps ==
    {"check_gcloud_installed", "run_auth_login", "list_available_projects",
     "set_project", "enable_docs_api"}

\* step name was performed and succeeded
Succeeded(name) ==
    \E i \in 1..Len(performed) : performed[i] = Step(name, TRUE)

\* C20: setup exits with status 1 as soon as a required step fails (gcloud
\* not installed, login fails, no project available, set_project fails,
\* enabling the Docs API fails) and performs no step after it; "Setup
\* complete" is reached only if the gcloud check passed, credentials existed
\* or the login succeeded, a default project is set and the Docs API is
\* enabled for it.
C20_SetupExits ==
    /\ \A i \in 1..Len(performed) :
          (performed[i].step \in RequiredSteps /\ ~performed[i].ok) =>
              /\ i = Len(performed)
              /\ exit_code = <<1>>
              /\ pc = "setup_exit"
    /\ pc = "setup_complete" =>
          /\ exit_code = <<>>
          /\ Succeeded("check_gcloud_installed")
          /\ Succeeded("check_credentials_exist") \/ Succeeded("run_auth_login")
          /\ current_project \in ProjectIds
          /\ Succeeded("get_current_project") \/ Succeeded("set_project")
          /\ Succeeded("check_api_enabled") \/ Succeeded("enable_docs_api")

\* set_project fails after a project was chosen at the prompt: exit 1
C20_Witness ==
    /\ pc = "setup_exit"
    /\ exit_code = <<1>>
    /\ performed[Len(performed)] = Step("set_project", FALSE)
    /\ Succeeded("prompt")

\* the checks setup makes when everything is configured, in order
ConfiguredChecks ==
    <<Step("check_gcloud_installed", TRUE), Step("check_credentials_exist", TRUE),
      Step("get_current_project", TRUE), Step("check_api_enabled", TRUE)>>

\* every helper called so far reported success, and no revocation is asked
AllConfigured ==
    ~revoke /\ \A i \in 1..Len(performed) : performed[i].ok

\* C21: when gcloud is installed, credentials exist, revoke is not requested,
\* a default project is set and the Docs API is enabled, setup performs only
\* the four checks, each once, calls none of revoke_credentials,
\* run_auth_login, list_available_projects, set_project and enable_docs_api,
\* and completes without exiting.
C21_OnlyChecks ==
    AllConfigured =>
        /\ Len(performed) <= Len(ConfiguredChecks)
        /\ performed = SubSeq(ConfiguredChecks, 1, Len(performed))
        /\ login_calls = <<>>
        /\ exit_code = <<>>
        /\ pc # "setup_exit"
        /\ performed = ConfiguredChecks => pc = "setup_complete"

\* everything was configured: four checks, then "Setup complete"
C21_Witness ==
    /\ ~revoke
    /\ pc = "setup_complete"
    /\ performed = ConfiguredChecks
    /\ exit_code = <<>>

\* the positions of the calls of helper name among the steps performed
Calls(name) == {i \in 1..Len(performed) : performed[i].step = name}

\* setup is past Step 2 (or has exited at the login)
PastCredentials ==
    /\ Succeeded("check_gcloud_installed")
    /\ pc \notin {"revoke_credentials", "check_credentials_exist", "run_auth_login"}

\* the arguments run_auth_login is to be called with
GivenLoginArgs(call) ==
    /\ call.extra_scopes = setup_args.extra_scopes
    /\ setup_args.client_id_file \notin {None, ""} =>
          call.client_id_file = setup_args.client_id_file

RevokeThenLogin ==
    /\ Cardinality(Calls("revoke_credentials")) <= 1
    /\ Cardinality(Calls("run_auth_login")) <= 1
    /\ Len(login_calls) = Cardinality(Calls("run_auth_login"))
    /\ \A k \in 1..Len(login_calls) : GivenLoginArgs(login_calls[k])
    /\ revoke =>
          /\ \A j \in Calls("run_auth_login") :
                \E i \in Calls("revoke_credentials") : i < j
          /\ PastCredentials =>
                /\ Cardinality(Calls("revoke_credentials")) = 1
                /\ Cardinality(Calls("run_auth_login")) = 1
    /\ ~revoke =>
          /\ Calls("revoke_credentials") = {}
          /\ Succeeded("check_credentials_exist") => Calls("run_auth_login") = {}

\* C22: with revoke=True setup calls revoke_credentials exactly once, before
\* any login, and then always calls run_auth_login exactly once with the
\* given extra scopes and client id file, whether or not credentials exist
\* and whether or not the revocation succeeded; with revoke=False and
\* existing credentials run_auth_login is never called.
C22_RevokeThenLogin ==
    /\ []RevokeThenLogin
    /\ (Calls("revoke_credentials") # {}) ~> (Calls("run_auth_login") # {})

\* the revocation failed, credentials exist, and the login was still made
C22_Witness ==
    /\ revoke
    /\ PastCredentials
    /\ performed[2] = Step("revoke_credentials", FALSE)
    /\ performed[3] = Step("check_credentials_exist", TRUE)
    /\ performed[4].step = "run_auth_login"
    /\ login_calls = <<[extra_scopes |-> "scope", client_id_file |-> "client.json"]>>

---------------------------------------------------------------------------
(* Properties of get_document, batch_update and is_multi_tab *)

IsMultiTabEnded == pc = "client_done" /\ client_call.method = "is_multi_tab"

\* the fetch of the document succeeded and the document has n tabs
FetchedTabs(n) ==
    /\ retry_result.kind = "returned"
    /\ IF "tabs" \in DOMAIN retry_result.value
       THEN Len(retry_result.value.tabs) = n
       ELSE n = 0

\* C23: is_multi_tab returns True when the fetched document has more than one
\* tab, and False when it has no "tabs" key, an empty tabs list or a single
\* tab, and also False, without raising, when the document cannot be fetched.
C23_IsMultiTab ==
    IsMultiTabEnded =>
        client_result =
            Returned(IF FetchedTabs(0) \/ FetchedTabs(1)
                        \/ retry_result.kind # "returned"
                     THEN PyFalse ELSE PyTrue)

\* the same without the single-tab case: what is_multi_tab does for the other
\* documents and for a failed fetch
C23_OtherCases ==
    (IsMultiTabEnded /\ ~FetchedTabs(1)) =>
        client_result =
            Returned(IF FetchedTabs(0) \/ retry_result.kind # "returned"
                     THEN PyFalse ELSE PyTrue)

C23_SingleTabIsTrue ==
    IsMultiTabEnded /\ FetchedTabs(1) /\ client_result = Returned(PyTrue)

NormalisingCall == client_call.method \in {"get_document", "batch_update"}

\* C28: get_document and batch_update pass their argument through
\* extract_document_id before the service is contacted: every request sent
\* carries the extracted id (for a URL, an id and not the URL), and an
\* argument with no extractable id ends in ValueError with no request sent,
\* no attempt made and no sleep.
C28_Normalised ==
    NormalisingCall =>
        /\ \A i \in 1..Len(remote_requests) :
              /\ ExtractDocumentId(url_or_id).kind = "returned"
              /\ remote_requests[i].documentId = ExtractDocumentId(url_or_id).value
              /\ Contains(url_or_id, "/") =>
                    /\ remote_requests[i].documentId # url_or_id
                    /\ ~Contains(remote_requests[i].documentId, "/")
        /\ ExtractDocumentId(url_or_id).kind = "raised" =>
              /\ remote_requests = <<>>
              /\ outcomes = <<>>
              /\ sleeps = <<>>
              /\ attempt = 0
              /\ pc = "client_done" => client_result = Raised("ValueError")

\* a URL was given, the first request failed and was retried, and both
\* requests carry the id of the URL
C28_Witness ==
    /\ pc = "client_done"
    /\ client_call.method = "batch_update"
    /\ Contains(url_or_id, "/")
    /\ Len(remote_requests) = 2
    /\ \A i \in 1..2 :
          remote_requests[i].documentId =
              <<"a", "b", "c", "1", "2", "3", "d", "e", "f", "4", "5", "6">>

---------------------------------------------------------------------------
(* Properties of upload's calls to the service *)

\* t occurs in s as a contiguous piece
IsPieceOf(t, s) == \E i \in 1..(Len(s) + 1) : MatchAt(s, t, i)

\* rs is the whole operation list of the markup: the deletion first when the
\* fetched document has content to delete, and one insertion per line of the
\* markup, in the order of the lines, each inserting text of its line and a
\* newline
CompleteList(rs) ==
    LET ins == SelectSeq(rs, IsInsert)
        ls == Split(markdown_content, NL)
    IN /\ \A i \in 1..Len(rs) : IsDelete(rs[i]) <=> (i = 1 /\ end_index > 1)
       /\ Len(ins) = Len(ls)
       /\ \A i \in 1..Len(ins) :
             /\ EndsWith(ins[i].text, <<NL>>)
             /\ IsPieceOf(SubSeq(ins[i].text, 1, Len(ins[i].text) - 1), ls[i])
       /\ \A i \in 1..Len(ins), j \in 1..Len(ins) :
             i < j => ins[i].index <= ins[j].index

\* the fetch of upload failed
UploadFetchFailed == pc = "error" /\ doc = NoDoc

\* C24: an upload that succeeds has made exactly one documents.get call and
\* then exactly one batchUpdate call, which carries the whole operation list
\* (the deletion first when there is one, then the insertions in the order of
\* the markup's lines); when the fetch fails, upload ends in an error after
\* that single get call and no batchUpdate is sent.
C24_OneFetchOneBatch ==
    /\ pc = "done" =>
          /\ upload_calls = <<GetCall, BatchUpdateRequest(requests)>>
          /\ CompleteList(upload_calls[2].requests)
    /\ UploadFetchFailed => upload_calls = <<GetCall>>
    /\ pc = "lines" => upload_calls = <<GetCall>>

\* a successful upload of a markup of three lines to a document with content
C24_Witness ==
    /\ pc = "done"
    /\ Len(upload_calls) = 2
    /\ Len(Split(markdown_content, NL)) = 3
    /\ IsDelete(upload_calls[2].requests[1])
    /\ Len(upload_calls[2].requests) >= 4

---------------------------------------------------------------------------
(* Properties of the ranges upload emits *)

\* the range of a deletion starts at 1 or later and is not empty
DeleteRangeWellFormed(r) == 1 <= r.startIndex /\ r.startIndex < r.endIndex

\* the range of a paragraph style is not empty
StyleRangeWellFormed(r) == r.startIndex < r.endIndex

\* C26: every range upload emits is non-empty and well-formed: a deletion
\* has 1 <= startIndex < endIndex and every paragraph style has
\* startIndex < endIndex.
C26_RangesNonEmpty ==
    \A i \in 1..Len(requests) :
        /\ IsDelete(requests[i]) => DeleteRangeWellFormed(requests[i])
        /\ IsStyle(requests[i]) => StyleRangeWellFormed(requests[i])

\* the deletions alone
C26_DeleteRanges ==
    \A i \in 1..Len(requests) :
        IsDelete(requests[i]) => DeleteRangeWellFormed(requests[i])

\* the paragraph styles alone
C26_StyleRanges ==
    \A i \in 1..Len(requests) :
        IsStyle(requests[i]) => StyleRangeWellFormed(requests[i])

---------------------------------------------------------------------------
(* Properties of the lines download emits *)

\* s has no line terminator other than its last character
OneLine(s) == \A j \in 1..(Len(s) - 1) : s[j] # NL

\* C27: every paragraph, heading and table row download emits occupies
\* exactly one line: the emitted string has no line terminator other than
\* its final one.
C27_OneLinePerElement ==
    \A i \in 1..Len(markdown_parts) : OneLine(markdown_parts[i])

---------------------------------------------------------------------------
(* Properties of concurrent uploads *)

\* the request list as an operator agrees with the list the loop builds
UploadRequestsAgree ==
    pc = "done" => requests = UploadRequests(end_index, markdown_content)

\* the body of a document that holds the markup md and nothing else
Rendered(md) == ApplyAll(<<NL>>, LinesRequests(Split(md, NL), 1))

BothDone == \A p \in Uploaders : uploads[p].pc = "done"

\* C25: when two uploads to the same document run at the same time, each
\* fetching the end index and then sending its batch, which the service
\* applies atomically, then in every interleaving each batch's offsets are
\* valid when the batch is applied, and the final content is the markup of one
\* of the two uploads.
C25_ConcurrentUploads ==
    /\ \A i \in 1..Len(batches) : batches[i].valid
    /\ BothDone =>
          \E p \in Uploaders : body = Rendered(uploads[p].markdown_content)

\* the first half alone: no batch is rejected
C25_BatchesValid == \A i \in 1..Len(batches) : batches[i].valid

\* the second half alone: the final content is one upload's markup
C25_FinalContent ==
    BothDone => \E p \in Uploaders : body = Rendered(uploads[p].markdown_content)

---------------------------------------------------------------------------
(* Properties of extract_images *)

\* _choose_out_path finds a path for every image of the pending list
PathAlwaysFound ==
    \A i \in 1..Len(pending) :
        ChooseOutPath(files, pending[i].mime, pending[i].data).kind = "returned"

\* no file of the directory is removed or changed by a step
FilesKept == \A f \in files : f \in files'

\* the path of a substitution is imgs/img-{prefix}{ext}, the prefix being at
\* least HASH_LENGTH digits of the digest of the bytes
PathOfDigest(e) ==
    \E n \in HASH_LENGTH..HexLen, mt \in ImageMimes :
        e.rel = ImgPath(SubSeq(Sha256Hex(e.data), 1, n), ExtForMime(mt))

\* the file at the path of a substitution holds the bytes of the image
HoldsItsBytes(e) == Exists(files, e.rel) /\ ReadBytes(files, e.rel) = e.data

SubstitutionsSound ==
    \A i \in 1..Len(exported) :
        PathOfDigest(exported[i]) /\ HoldsItsBytes(exported[i])

\* two images with different bytes have different paths
DifferentBytesDifferentPaths ==
    \A i \in 1..Len(exported), j \in 1..Len(exported) :
        exported[i].data # exported[j].data => exported[i].rel # exported[j].rel

\* identical bytes have the same path
SameBytesSamePath ==
    \A i \in 1..Len(exported), j \in 1..Len(exported) :
        exported[i].data = exported[j].data => exported[i].rel = exported[j].rel

\* identical bytes of the same image type have the same path
SameBytesAndTypeSamePath ==
    \A i \in 1..Len(exported), j \in 1..Len(exported) :
        (exported[i].data = exported[j].data /\ exported[i].mime = exported[j].mime)
            => exported[i].rel = exported[j].rel

\* C29: extract_images never overwrites or changes an existing image file:
\* each image is written to imgs/img-{digest prefix of at least 5 hex
\* digits}{ext} only when that path does not exist; a path that holds other
\* bytes is passed over by lengthening the prefix; identical bytes always get
\* the same path; and images with different bytes never get the same path,
\* within one run or across runs.
C29_ExtractImages ==
    /\ [][FilesKept]_vars
    /\ [](SubstitutionsSound /\ DifferentBytesDifferentPaths /\ SameBytesSamePath)

\* the same, without the clause on identical bytes
C29_FilesNeverChanged ==
    /\ [][FilesKept]_vars
    /\ [](SubstitutionsSound /\ DifferentBytesDifferentPaths)

\* identical bytes have the same path as long as no bytes were met under two
\* image types
SameBytesSamePathOneType ==
    (\A i \in 1..Len(exported), j \in 1..Len(exported) :
        exported[i].data = exported[j].data => exported[i].mime = exported[j].mime)
        => SameBytesSamePath

---------------------------------------------------------------------------
(* Properties of inline_images *)

\* the lines of a file, the newline at its end not opening another line
LinesOfFile(text) ==
    IF text = <<>> THEN <<>>
    ELSE IF text[Len(text)] = NL
    THEN SubSeq(Split(text, NL), 1, Len(Split(text, NL)) - 1)
    ELSE Split(text, NL)

\* a reference line whose image file exists
IsFileRef(l) == ImageRefMatch(l).matched /\ Exists(files, ImageRefMatch(l).path)

\* a reference line whose image file is missing
IsMissingRef(l) == ImageRefMatch(l).matched /\ ~Exists(files, ImageRefMatch(l).path)

\* a '[imageN]: <data:...>' line
IsDataRef(l) == ImageRefMatch(l).matched /\ Head(ImageRefMatch(l).path) = "data:"

\* the number of lines of ls that satisfy Test and carry label
CountLabel(ls, Test(_), label) ==
    Cardinality({i \in 1..Len(ls) : Test(ls[i]) /\ ImageRefMatch(ls[i]).label = label})

LabelsOf(ls) ==
    {ImageRefMatch(ls[i]).label : i \in {j \in 1..Len(ls) : ImageRefMatch(ls[j]).matched}}

\* after is before with some file reference lines removed and, for each
\* removed line, one data URI line of the same label appended at the end, the
\* appended lines in the order of their numbers; the reference lines whose
\* file is missing are where they were
LabelsPreserved(before, after) ==
    \E k \in 0..Len(after) :
        LET kept == SubSeq(after, 1, Len(after) - k)
            appended == SubSeq(after, Len(after) - k + 1, Len(after))
        IN /\ \A j \in 1..k : IsDataRef(appended[j])
           /\ \A i \in 1..k, j \in 1..k :
                 i < j => LabelSortKey(ImageRefMatch(appended[i]).label)
                            <= LabelSortKey(ImageRefMatch(appended[j]).label)
           /\ SelectSeq(before, IsMissingRef) = SelectSeq(kept, IsMissingRef)
           /\ \A label \in LabelsOf(before) \cup LabelsOf(after) :
                 CountLabel(before, IsFileRef, label)
                     = CountLabel(kept, IsFileRef, label)
                       + CountLabel(appended, IsDataRef, label)

\* C30: inline_images preserves every image label: each '[imageN]: <path>'
\* reference line it removes is replaced by exactly one '[imageN]: <data:...>'
\* line with the same label, appended at the end of the file in the order of
\* the labels' numbers, and the reference lines whose image file is missing
\* stay in place unchanged.
C30_LabelsPreserved ==
    pc = "inlined" => LabelsPreserved(LinesOfFile(md_before), LinesOfFile(md_text))

\* every image file that exists can be read and no label is used by two
\* reference lines
AllReadableDistinctLabels ==
    /\ \A f \in files : f.readable
    /\ \A label \in LabelsOf(LinesOfFile(md_before)) :
          CountLabel(LinesOfFile(md_before), IsFileRef, label) <= 1

\* the labels are preserved when every file can be read and the labels are
\* distinct
LabelsPreservedWhenReadable ==
    (pc = "inlined" /\ AllReadableDistinctLabels)
        => LabelsPreserved(LinesOfFile(md_before), LinesOfFile(md_text))

\* a file was rewritten with two data URI lines
TwoInlined ==
    /\ pc = "inlined"
    /\ AllReadableDistinctLabels
    /\ md_text # md_before
    /\ Len(SelectSeq(LinesOfFile(md_text), IsDataRef))
          >= 2 + Len(SelectSeq(LinesOfFile(md_before), IsDataRef))

\* no label is used by two reference lines
DistinctLabels ==
    \A label \in LabelsOf(LinesOfFile(md_before)) :
        CountLabel(LinesOfFile(md_before), IsFileRef, label) <= 1

\* the labels are preserved when the labels are distinct, whether or not
\* every file can be read
LabelsPreservedWhenDistinct ==
    (pc = "inlined" /\ DistinctLabels)
        => LabelsPreserved(LinesOfFile(md_before), LinesOfFile(md_text))

=============================================================================
